---- MODULE Spec2Model ----
(***************************************************************************)
(* A model of src/supabase/functions/razorpay-payments/index.ts:           *)
(*   - the payment edge function (create_order / verify_payment),          *)
(*   - CallMatchingService (tickets in matchingRequests),                  *)
(*   - WebRTCService, raw RTCPeerConnection variant (calls, iceCandidates).*)
(* Each subsystem has its own next-state relation and specification; the   *)
(* variables of the other subsystems stay at their initial values.         *)
(***************************************************************************)
EXTENDS Integers, Sequences, FiniteSets, TLC

VARIABLES
    \* ---- payment edge function
    orders,         \* rows of table 'orders', in insertion order
    gatewayCount,   \* number of orders the payment gateway has created
    lastReq,        \* the request the handler served last
    resp,           \* the response it returned
    fulfilled,      \* fulfillment actions dispatched so far, in order
    \* ---- shared document store
    matchingRequests,   \* collection 'matchingRequests': ticket id -> document
    calls,              \* collection 'calls': call id -> document
    now,                \* the clock read by Timestamp.now()
    ticketCount,        \* tickets ever added (ids are never reused)
    callCount,          \* call documents ever added
    \* ---- CallMatchingService, one instance per client
    msvc,               \* client -> state of its service instance and of its call in progress
    mlisteners,         \* active onSnapshot listeners: <<client, ticket id>>
    mpending,           \* listeners with a snapshot not yet handed to their callback
    mstarts,            \* startMatching calls made so far
    mcheck,             \* arguments and results of the isCompatibleMatch call under study
    mclean,             \* the cleanupOldRequests call in progress, and how the last one ended
    \* ---- WebRTCService (RTCPeerConnection variant), one instance per user
    iceCandidates,      \* collection 'iceCandidates': document id -> document
    wsvc,               \* user -> fields of its service instance and its call in progress
    wlisteners,         \* active onSnapshot listeners
    callPending,        \* call snapshots raised and not yet handled: <<listener id, answer present>>
    icePending,         \* 'added' changes raised and not yet handled:
                        \* <<listener id, candidate id, 'from' of the document's data>>
    wcount,             \* objects made so far: peer connections, listeners, candidates, joinCall calls
    forwardCount,       \* <<peer connection id, candidate id>> -> number of addIceCandidate calls
    lateForward,        \* a candidate was forwarded after its document had been deleted
    \* ---- WebRTCService (simple-peer variant), one instance per user
    variant,            \* which of the two signalling variants of WebRTCService is in use
    signals,            \* collection 'signals': document id -> document
    psvc,               \* user -> fields of its service instance and its call in progress
    plisteners,         \* active onSnapshot listeners of listenForSignals
    sigPending,         \* 'added' changes raised and not yet handled:
                        \* <<listener id, signal id, 'from' of the document's data>>
    pcount,             \* objects made so far: peers, listeners, signals, joinCall calls
    signalCount         \* <<peer id, signal id>> -> number of peer.signal calls

payVars == <<orders, gatewayCount, lastReq, resp, fulfilled>>

storeVars == <<matchingRequests, calls, now, ticketCount, callCount>>

matchVars == <<msvc, mlisteners, mpending, mstarts, mcheck, mclean>>

rtcVars == <<iceCandidates, wsvc, wlisteners, callPending, icePending, wcount,
             forwardCount, lateForward>>

peerVars == <<variant, signals, psvc, plisteners, sigPending, pcount, signalCount>>

vars == <<orders, gatewayCount, lastReq, resp, fulfilled,
          matchingRequests, calls, now, ticketCount, callCount,
          msvc, mlisteners, mpending, mstarts, mcheck, mclean,
          iceCandidates, wsvc, wlisteners, callPending, icePending, wcount,
          forwardCount, lateForward,
          variant, signals, psvc, plisteners, sigPending, pcount, signalCount>>

(***************************************************************************)
(* Bounds of the model.                                                    *)
(***************************************************************************)
MaxOrders == 1
MaxDispatch == 2
MaxStarts == 3
MaxFindTickets == 12
MaxCalls == 1
MaxJoins == 2
MaxCandidates == 1
MaxCleanTickets == 3
MaxNow == 8

(***************************************************************************)
(* Payment edge function.  Strings that are concatenated by the code are   *)
(* sequences of one-character strings.                                     *)
(***************************************************************************)
RAZORPAY_KEY_ID == "rzp_test_WQBAQbslF30m1w"
RAZORPAY_SECRET_KEY == "secret"

PayUsers == {"u1", "u2"}
ProductTypes == {"coins", "premium", "unlimited_calls", "gift"}
Amounts == {5}

\* the id the gateway gives its n-th order: unique, and without a "|"
GatewayOrderId(n) == [i \in 1..n |-> "o"]

\* HMAC-SHA256 as an ideal keyed hash: equal digests only for equal key and body
createHmac(key, body) == <<"sha256", key, body>>

SigningBody(razorpay_order_id, razorpay_payment_id) ==
    razorpay_order_id \o <<"|">> \o razorpay_payment_id

expectedSignature(razorpay_order_id, razorpay_payment_id) ==
    createHmac(RAZORPAY_SECRET_KEY, SigningBody(razorpay_order_id, razorpay_payment_id))

SignatureAccepted_NoCheck(razorpay_order_id, razorpay_payment_id, razorpay_signature) ==
    TRUE

SignatureAccepted(razorpay_order_id, razorpay_payment_id, razorpay_signature) ==
    ~(expectedSignature(razorpay_order_id, razorpay_payment_id) # razorpay_signature)

\* what a client may send as verify_payment fields
\* (a gateway id that has a local order, one that has none, and one that ends in "|")
ReqOrderIds ==
    {GatewayOrderId(n) : n \in 1..(MaxOrders + 1)} \cup {GatewayOrderId(1) \o <<"|">>}
ReqPaymentIds == {<<"p">>, <<"|", "p">>}
\* signatures in circulation: the gateway's for payment "p" of each order id, the
\* one for body o||p (which is both o + "|" + |p and o| + "|" + p), and a forgery
\* made without the secret
ReqSignatures ==
    {createHmac(RAZORPAY_SECRET_KEY, SigningBody(o, <<"p">>)) : o \in ReqOrderIds}
    \cup {createHmac("guess", SigningBody(GatewayOrderId(1), <<"p">>))}

NoStr == <<>>

\* a request body, with how the gateway and the database answered while it was served
\* (dbCalls: the number of database statements issued while it was served)
Request(action, oid, pid, sig, user, ptype, amount, gatewayOk, storeOk, dbCalls) ==
    [action |-> action, razorpay_order_id |-> oid, razorpay_payment_id |-> pid,
     razorpay_signature |-> sig, user_id |-> user, product_type |-> ptype,
     amount |-> amount, gatewayOk |-> gatewayOk, storeOk |-> storeOk,
     dbCalls |-> dbCalls]

NoRequest == Request("none", NoStr, NoStr, NoStr, "", "", 0, TRUE, TRUE, 0)

ErrorResponse(message) ==
    [status |-> 400, success |-> FALSE, error |-> message,
     order_id |-> NoStr, amount |-> 0, key_id |-> ""]

NoResponse == [status |-> 0, success |-> FALSE, error |-> "",
               order_id |-> NoStr, amount |-> 0, key_id |-> ""]

\* rows an update with .eq('razorpay_order_id', ..).eq('user_id', ..) selects
MatchingRows_AnyUser(razorpay_order_id, user_id) ==
    {i \in 1..Len(orders) : orders[i].razorpay_order_id = razorpay_order_id}

MatchingRows(razorpay_order_id, user_id) ==
    {i \in 1..Len(orders) : /\ orders[i].razorpay_order_id = razorpay_order_id
                            /\ orders[i].user_id = user_id}

PaidRow_Verified(row, razorpay_payment_id, razorpay_signature) ==
    [row EXCEPT !.razorpay_payment_id = razorpay_payment_id,
                !.razorpay_signature = razorpay_signature,
                !.status = "verified"]

PaidRow_KeepStatus(row, razorpay_payment_id, razorpay_signature) ==
    [row EXCEPT !.razorpay_payment_id = razorpay_payment_id,
                !.razorpay_signature = razorpay_signature]

PaidRow(row, razorpay_payment_id, razorpay_signature) ==
    [row EXCEPT !.razorpay_payment_id = razorpay_payment_id,
                !.razorpay_signature = razorpay_signature,
                !.status = "paid"]

\* the fulfillment branch taken for a product type ("" : none)
FulfillmentFor_AlwaysCoins(product_type) ==
    "add_coins"

FulfillmentFor(product_type) ==
    CASE product_type = "coins" -> "add_coins"
      [] product_type = "premium" -> "activate_premium"
      [] product_type = "unlimited_calls" -> "activate_unlimited_calls"
      [] OTHER -> ""

\* the row the insert of create_order stores
InsertedRow_Paid(user_id, razorpay_order_id, amount, product_type) ==
    [user_id |-> user_id, razorpay_order_id |-> razorpay_order_id, amount |-> amount,
     status |-> "paid", product_type |-> product_type,
     razorpay_payment_id |-> NoStr, razorpay_signature |-> NoStr]

InsertedRow(user_id, razorpay_order_id, amount, product_type) ==
    [user_id |-> user_id, razorpay_order_id |-> razorpay_order_id, amount |-> amount,
     status |-> "created", product_type |-> product_type,
     razorpay_payment_id |-> NoStr, razorpay_signature |-> NoStr]

CreateOrder(amount, product_type, user_id, gatewayOk, insertOk) ==
    /\ gatewayCount < MaxOrders
    /\ UNCHANGED <<storeVars, matchVars, rtcVars, peerVars>>
    /\ lastReq' = Request("create_order", NoStr, NoStr, NoStr, user_id, product_type, amount,
                          gatewayOk, gatewayOk /\ insertOk, IF gatewayOk THEN 1 ELSE 0)
    /\ UNCHANGED fulfilled
    /\ IF ~gatewayOk
       THEN /\ resp' = ErrorResponse("Failed to create Razorpay order")
            /\ UNCHANGED <<orders, gatewayCount>>
       ELSE /\ gatewayCount' = gatewayCount + 1
            /\ IF ~insertOk
               THEN /\ resp' = ErrorResponse("Failed to store order in database")
                    /\ UNCHANGED orders
               ELSE /\ orders' = Append(orders,
                                   InsertedRow(user_id, GatewayOrderId(gatewayCount + 1),
                                               amount, product_type))
                    /\ resp' = [status |-> 200, success |-> TRUE, error |-> "",
                                order_id |-> GatewayOrderId(gatewayCount + 1),
                                amount |-> amount * 100,
                                key_id |-> RAZORPAY_KEY_ID]

VerifyPayment(razorpay_order_id, razorpay_payment_id, razorpay_signature, user_id) ==
    /\ Len(fulfilled) < MaxDispatch
    /\ UNCHANGED <<gatewayCount, storeVars, matchVars, rtcVars, peerVars>>
    /\ IF ~SignatureAccepted(razorpay_order_id, razorpay_payment_id, razorpay_signature)
       THEN /\ lastReq' = Request("verify_payment", razorpay_order_id, razorpay_payment_id,
                                  razorpay_signature, user_id, "", 0, TRUE, TRUE, 0)
            /\ resp' = ErrorResponse("Invalid payment signature")
            /\ UNCHANGED <<orders, fulfilled>>
       ELSE \E updateOk \in BOOLEAN :
            LET rows == MatchingRows(razorpay_order_id, user_id) IN
            /\ lastReq' = Request("verify_payment", razorpay_order_id, razorpay_payment_id,
                                  razorpay_signature, user_id, "", 0, TRUE, updateOk, 1)
            /\ IF ~updateOk \/ Cardinality(rows) # 1
               THEN \* the update, or .single() on its result, reports an error
                    /\ resp' = ErrorResponse("Failed to update order status")
                    /\ UNCHANGED <<orders, fulfilled>>
               ELSE LET i == CHOOSE r \in rows : TRUE
                        order == PaidRow(orders[i], razorpay_payment_id, razorpay_signature)
                        todo == FulfillmentFor(order.product_type)
                    IN /\ orders' = [orders EXCEPT ![i] = order]
                       /\ fulfilled' = IF todo = "" THEN fulfilled
                                       ELSE Append(fulfilled,
                                              [action |-> todo, user_id |-> user_id, row |-> i])
                       /\ resp' = [status |-> 200, success |-> TRUE, error |-> "",
                                   order_id |-> order.razorpay_order_id,
                                   amount |-> 0, key_id |-> ""]

InitPay ==
    /\ orders = <<>>
    /\ gatewayCount = 0
    /\ lastReq = NoRequest
    /\ resp = NoResponse
    /\ fulfilled = <<>>

NextPay ==
    \/ \E amount \in Amounts, product_type \in ProductTypes, user_id \in PayUsers,
          gatewayOk \in BOOLEAN, insertOk \in BOOLEAN :
          CreateOrder(amount, product_type, user_id, gatewayOk, insertOk)
    \/ \E razorpay_order_id \in ReqOrderIds, razorpay_payment_id \in ReqPaymentIds,
          razorpay_signature \in ReqSignatures, user_id \in PayUsers :
          VerifyPayment(razorpay_order_id, razorpay_payment_id, razorpay_signature, user_id)

(***************************************************************************)
(* The document store.  Document ids are unique per collection and never   *)
(* reused; an id names its collection.                                     *)
(***************************************************************************)
TicketId(n) == <<"matchingRequests", n>>
CallId(n) == <<"calls", n>>
NoId == <<>>
NoUser == ""

InitStore ==
    /\ matchingRequests = <<>>
    /\ calls = <<>>
    /\ now = 1
    /\ ticketCount = 0
    /\ callCount = 0

(***************************************************************************)
(* CallMatchingService.                                                    *)
(***************************************************************************)
Clients == {"u1", "u2", "u3"}
Genders == {"male", "female", "other"}
Preferences == {"anyone", "men", "women"}
CallTypes == {"video", "voice"}

QueryLimit == 10

Profile(userGender, preferredGender, isPremium, callType) ==
    [userGender |-> userGender, preferredGender |-> preferredGender,
     isPremium |-> isPremium, callType |-> callType]

\* the arguments clients pass to startMatching in SpecMatch
MatchProfiles ==
    {Profile("male", "anyone", FALSE, "video"),
     Profile("female", "women", TRUE, "video")}

wouldAcceptGender_NotWomen(preference, isPremium, targetGender) ==
    IF ~isPremium THEN TRUE
    ELSE CASE preference = "men" -> targetGender # "female"
           [] preference = "women" -> targetGender = "female"
           [] OTHER -> TRUE

wouldAcceptGender(preference, isPremium, targetGender) ==
    IF ~isPremium THEN TRUE
    ELSE CASE preference = "men" -> targetGender = "male"
           [] preference = "women" -> targetGender = "female"
           [] OTHER -> TRUE

isCompatibleMatch_NewUserOnly(existingRequest, newUserGender, newUserPreference, newUserIsPremium) ==
    wouldAcceptGender(newUserPreference, newUserIsPremium, existingRequest.userGender)

isCompatibleMatch(existingRequest, newUserGender, newUserPreference, newUserIsPremium) ==
    LET existingUserAccepts == wouldAcceptGender(existingRequest.preferredGender,
                                                 existingRequest.isPremium, newUserGender)
        newUserAccepts == wouldAcceptGender(newUserPreference, newUserIsPremium,
                                            existingRequest.userGender)
    IN existingUserAccepts /\ newUserAccepts

\* orderBy('createdAt', 'asc'): by creation time, then by document id
OrderedBefore(t, u) ==
    \/ matchingRequests[t].createdAt < matchingRequests[u].createdAt
    \/ /\ matchingRequests[t].createdAt = matchingRequests[u].createdAt
       /\ t[2] < u[2]

\* where('status', '==', 'waiting'), where('callType', '==', callType)
WaitingOfType(callType) ==
    {t \in DOMAIN matchingRequests : /\ matchingRequests[t].status = "waiting"
                                     /\ matchingRequests[t].callType = callType}

\* position of t (from 0) in the ordered result of the query over S
PositionIn(t, S) == Cardinality({u \in S : OrderedBefore(u, t)})

\* limit(n): the ids the snapshot holds
SnapshotIds_NoLimit(S, n) == S

SnapshotIds(S, n) == {t \in S : PositionIn(t, S) < n}

NoMatch == [id |-> NoId]

\* the request object the loop builds from a snapshot document
RequestOf(t) ==
    [id |-> t,
     userId |-> matchingRequests[t].userId,
     userGender |-> matchingRequests[t].userGender,
     preferredGender |-> matchingRequests[t].preferredGender,
     isPremium |-> matchingRequests[t].isPremium,
     callType |-> matchingRequests[t].callType,
     status |-> matchingRequests[t].status,
     createdAt |-> matchingRequests[t].createdAt,
     matchedWith |-> matchingRequests[t].matchedWith,
     callId |-> matchingRequests[t].callId]

\* the loop over snapshot.docs: the first document, in order, that is compatible
FirstCompatible(docs, all, userGender, preferredGender, isPremium) ==
    LET good == {t \in docs : isCompatibleMatch(RequestOf(t), userGender,
                                                preferredGender, isPremium)}
    IN IF good = {} THEN NoMatch
       ELSE RequestOf(CHOOSE t \in good : \A u \in good : PositionIn(t, all) <= PositionIn(u, all))

\* queryOk = FALSE: getDocs throws, the catch returns null
findExistingMatch(userGender, preferredGender, isPremium, callType, queryOk) ==
    IF ~queryOk THEN NoMatch
    ELSE LET all == WaitingOfType(callType)
         IN FirstCompatible(SnapshotIds(all, QueryLimit), all,
                            userGender, preferredGender, isPremium)

NoArgs == [userGender |-> "", preferredGender |-> "", isPremium |-> FALSE,
           callType |-> "", queryOk |-> TRUE]

NoReturn == [kind |-> "none", value |-> NoId]

IdleService ==
    [pc |-> "idle", args |-> NoArgs, existingMatch |-> NoMatch, callDoc |-> NoId,
     ret |-> NoReturn, matchingUnsubscribe |-> NoId, found |-> <<>>]

\* a write to ticket t raises a snapshot for every active listener on it
Notified(t) == mpending \cup {l \in mlisteners : l[2] = t}

\* calling the unsubscribe function held in the client's slot
Unsubscribed(p, S) ==
    IF msvc[p].matchingUnsubscribe = NoId THEN S
    ELSE S \ {<<p, msvc[p].matchingUnsubscribe>>}

\* startMatching up to the return of findExistingMatch
StartMatching(p, profile, queryOk) ==
    /\ msvc[p].pc = "idle"
    /\ mstarts < MaxStarts
    /\ mstarts' = mstarts + 1
    /\ LET m == findExistingMatch(profile.userGender, profile.preferredGender,
                                  profile.isPremium, profile.callType, queryOk)
       IN msvc' = [msvc EXCEPT ![p] =
                     [@ EXCEPT !.pc = IF m = NoMatch THEN "create" ELSE "join",
                               !.args = [userGender |-> profile.userGender,
                                         preferredGender |-> profile.preferredGender,
                                         isPremium |-> profile.isPremium,
                                         callType |-> profile.callType,
                                         queryOk |-> queryOk],
                               !.existingMatch = m,
                               !.callDoc = NoId,
                               !.ret = NoReturn]]
    /\ UNCHANGED <<payVars, rtcVars, peerVars, storeVars, mlisteners, mpending, mcheck, mclean>>

\* the document startMatching adds
NewTicket_NoPreference(userId, args, createdAt) ==
    [userId |-> userId,
     userGender |-> args.userGender,
     preferredGender |-> "anyone",
     isPremium |-> args.isPremium,
     callType |-> args.callType,
     status |-> "waiting",
     createdAt |-> createdAt,
     matchedWith |-> NoUser,
     callId |-> NoId]

NewTicket(userId, args, createdAt) ==
    [userId |-> userId,
     userGender |-> args.userGender,
     preferredGender |-> args.preferredGender,
     isPremium |-> args.isPremium,
     callType |-> args.callType,
     status |-> "waiting",
     createdAt |-> createdAt,
     matchedWith |-> NoUser,
     callId |-> NoId]

\* startMatching, no match: addDoc of the new ticket, listenForMatch, return of its id
CreateTicket(p) ==
    /\ msvc[p].pc = "create"
    /\ LET t == TicketId(ticketCount + 1) IN
       /\ matchingRequests' = matchingRequests @@ (t :> NewTicket(p, msvc[p].args, now))
       /\ mlisteners' = mlisteners \cup {<<p, t>>}
       /\ mpending' = mpending \cup {<<p, t>>}
       /\ msvc' = [msvc EXCEPT ![p] = [@ EXCEPT !.pc = "idle",
                                                !.matchingUnsubscribe = t,
                                                !.ret = [kind |-> "created", value |-> t]]]
    /\ ticketCount' = ticketCount + 1
    /\ now' = now + 1
    /\ UNCHANGED <<payVars, rtcVars, peerVars, calls, callCount, mstarts, mcheck, mclean>>

\* joinMatch: addDoc of the call document
JoinAddCall(p) ==
    /\ msvc[p].pc = "join"
    /\ LET c == CallId(callCount + 1) IN
       /\ calls' = calls @@
            (c :> [callerId |-> p, receiverId |-> p, status |-> "connecting",
                   callType |-> "video", createdAt |-> now,
                   offer |-> FALSE, answer |-> FALSE])
       /\ msvc' = [msvc EXCEPT ![p] = [@ EXCEPT !.pc = "join_update", !.callDoc = c]]
    /\ callCount' = callCount + 1
    /\ UNCHANGED <<payVars, rtcVars, peerVars, matchingRequests, now, ticketCount, mlisteners, mpending, mstarts, mcheck, mclean>>

\* updateDoc succeeds on a document that exists
TicketWritable_IfWaiting(t) ==
    t \in DOMAIN matchingRequests /\ matchingRequests[t].status = "waiting"

TicketWritable(t) == t \in DOMAIN matchingRequests

\* what startMatching returns after joinMatch
JoinedReturn(existingMatch) ==
    IF existingMatch.callId # NoId THEN existingMatch.callId ELSE existingMatch.id

\* joinMatch: the ticket after its updateDoc
MatchedTicket_StatusOnly(ticket, userId, callDoc) == [ticket EXCEPT !.status = "matched"]

MatchedTicket(ticket, userId, callDoc) ==
    [ticket EXCEPT !.status = "matched",
                   !.matchedWith = userId,
                   !.callId = callDoc]

\* joinMatch: updateDoc of the ticket, then the return of startMatching
JoinUpdate(p) ==
    /\ msvc[p].pc = "join_update"
    /\ LET t == msvc[p].existingMatch.id IN
       IF TicketWritable(t)
       THEN /\ matchingRequests' = [matchingRequests EXCEPT ![t] =
                                       MatchedTicket(@, p, msvc[p].callDoc)]
            /\ mpending' = Notified(t)
            /\ msvc' = [msvc EXCEPT ![p] =
                          [@ EXCEPT !.pc = "idle",
                                    !.ret = [kind |-> "joined",
                                             value |-> JoinedReturn(msvc[p].existingMatch)]]]
       ELSE \* updateDoc rejects: 'Failed to start matching: Failed to join match: ...'
            /\ msvc' = [msvc EXCEPT ![p] =
                          [@ EXCEPT !.pc = "idle",
                                    !.ret = [kind |-> "error", value |-> NoId]]]
            /\ UNCHANGED <<matchingRequests, mpending>>
    /\ UNCHANGED <<payVars, rtcVars, peerVars, calls, now, ticketCount, callCount, mlisteners, mstarts, mcheck, mclean>>

\* the onSnapshot callback of listenForMatch
MatchSnapshot(p, t) ==
    /\ <<p, t>> \in mpending
    /\ <<p, t>> \in mlisteners
    /\ IF /\ t \in DOMAIN matchingRequests
          /\ matchingRequests[t].status = "matched"
          /\ matchingRequests[t].matchedWith # NoUser
          /\ matchingRequests[t].callId # NoId
       THEN /\ msvc' = [msvc EXCEPT ![p] =
                          [@ EXCEPT !.found = Append(@, [ticket |-> t,
                                         callId |-> matchingRequests[t].callId,
                                         partnerId |-> matchingRequests[t].matchedWith]),
                                    !.matchingUnsubscribe = NoId]]
            /\ mlisteners' = Unsubscribed(p, mlisteners)
            /\ mpending' = Unsubscribed(p, mpending \ {<<p, t>>})
       ELSE /\ mpending' = mpending \ {<<p, t>>}
            /\ UNCHANGED <<msvc, mlisteners>>
    /\ UNCHANGED <<payVars, rtcVars, peerVars, storeVars, mstarts, mcheck, mclean>>

\* what cancelMatching gives its caller: a normal return, also when the catch has
\* logged a rejected deleteDoc ("cancelled_failed")
CancelReturn_Throws(t, deleteOk) ==
    [kind |-> IF deleteOk THEN "cancelled" ELSE "error", value |-> t]

CancelReturn(t, deleteOk) ==
    [kind |-> IF deleteOk THEN "cancelled" ELSE "cancelled_failed", value |-> t]

\* cancelMatching with the id the client's last startMatching returned
\* (deleteOk = FALSE: deleteDoc rejects; the catch logs and the call returns)
CancelMatching(p, deleteOk) ==
    /\ msvc[p].pc = "idle"
    /\ msvc[p].ret.kind \in {"created", "joined"}
    /\ LET t == msvc[p].ret.value IN
       IF deleteOk
       THEN /\ matchingRequests' = [u \in DOMAIN matchingRequests \ {t} |-> matchingRequests[u]]
            /\ mlisteners' = Unsubscribed(p, mlisteners)
            /\ mpending' = Unsubscribed(p, IF t \in DOMAIN matchingRequests
                                           THEN Notified(t) ELSE mpending)
            /\ msvc' = [msvc EXCEPT ![p] = [@ EXCEPT !.matchingUnsubscribe = NoId,
                                                     !.ret = CancelReturn(t, deleteOk)]]
       ELSE /\ msvc' = [msvc EXCEPT ![p] = [@ EXCEPT !.ret = CancelReturn(t, deleteOk)]]
            /\ UNCHANGED <<matchingRequests, mlisteners, mpending>>
    /\ UNCHANGED <<payVars, rtcVars, peerVars, calls, now, ticketCount, callCount, mstarts, mcheck, mclean>>

(***************************************************************************)
(* cleanupOldRequests.  Time is counted in minutes.                        *)
(***************************************************************************)
CleanupAgeMinutes == 5

\* The local time zone of the runtime: the minutes local time is ahead of UTC,
\* before and from the instant of a change.  A zone without daylight saving, one
\* whose clocks go back an hour and one whose clocks go forward an hour.
DstChange == 7
DstShift == 60

TimeZone(change, before, after) == [change |-> change, before |-> before, after |-> after]

TimeZones ==
    {TimeZone(0, 0, 0), TimeZone(DstChange, DstShift, 0), TimeZone(DstChange, 0, DstShift)}

Offset(tz, t) == IF t < tz.change THEN tz.before ELSE tz.after

\* Date: the local time of an instant
LocalTime(tz, t) == t + Offset(tz, t)

\* Date: the instant of a local time; a local time that occurs twice, or never, is
\* read with the offset in force before the change
UTC(tz, local) ==
    IF (local - tz.before) + Offset(tz, local - tz.before) = local THEN local - tz.before
    ELSE IF (local - tz.after) + Offset(tz, local - tz.after) = local THEN local - tz.after
    ELSE local - tz.before

NoCleanup == [pc |-> "idle", tz |-> TimeZone(0, 0, 0), threshold |-> 0, snapshot |-> {},
              failed |-> {}, queryOk |-> TRUE, ret |-> "none"]

\* new Date() at instant t, then setMinutes(getMinutes() - 5): local time arithmetic
FiveMinutesAgo(tz, t) == UTC(tz, LocalTime(tz, t) - CleanupAgeMinutes)

\* where('createdAt', '<', threshold), where('status', '==', 'waiting')
OldRequests(threshold) ==
    {t \in DOMAIN matchingRequests : /\ matchingRequests[t].createdAt < threshold
                                     /\ matchingRequests[t].status = "waiting"}

\* cleanupOldRequests up to the result of getDocs
\* (queryOk = FALSE: getDocs throws; the catch logs and the call returns)
CleanupOldRequests(queryOk) ==
    /\ mclean.pc = "idle"
    /\ mclean' = IF queryOk
                 THEN [pc |-> "delete", tz |-> mclean.tz,
                       threshold |-> FiveMinutesAgo(mclean.tz, now),
                       snapshot |-> OldRequests(FiveMinutesAgo(mclean.tz, now)),
                       failed |-> {}, queryOk |-> TRUE, ret |-> "none"]
                 ELSE [NoCleanup EXCEPT !.tz = mclean.tz, !.queryOk = FALSE,
                                        !.ret = "returned"]
    /\ UNCHANGED <<payVars, storeVars, rtcVars, peerVars, msvc, mlisteners, mpending, mstarts, mcheck>>

\* cleanupOldRequests: one deleteDoc per document of the snapshot, all issued, then
\* awaited together; the deletes in failed reject, the catch logs, the call returns
CleanupDelete(failed) ==
    /\ mclean.pc = "delete"
    /\ failed \subseteq mclean.snapshot
    /\ LET gone == (mclean.snapshot \ failed) \cap DOMAIN matchingRequests IN
       /\ matchingRequests' = [t \in DOMAIN matchingRequests \ gone |-> matchingRequests[t]]
       /\ mpending' = mpending \cup {l \in mlisteners : l[2] \in gone}
    /\ mclean' = [NoCleanup EXCEPT !.tz = mclean.tz, !.failed = failed, !.ret = "returned"]
    /\ UNCHANGED <<payVars, rtcVars, peerVars, calls, now, ticketCount, callCount,
                   msvc, mlisteners, mstarts, mcheck>>

\* a minute passes
Tick ==
    /\ now < MaxNow
    /\ now' = now + 1
    /\ UNCHANGED <<payVars, rtcVars, peerVars, matchVars, matchingRequests, calls, ticketCount, callCount>>

NoCheck ==
    [existingRequest |-> Profile("", "", FALSE, ""), newUser |-> Profile("", "", FALSE, ""),
     done |-> FALSE, existingUserAccepts |-> FALSE, newUserAccepts |-> FALSE,
     result |-> FALSE]

InitMatch ==
    /\ msvc = [p \in Clients |-> IdleService]
    /\ mlisteners = {}
    /\ mpending = {}
    /\ mstarts = 0
    /\ mcheck = NoCheck
    /\ mclean = NoCleanup

NextMatch ==
    \/ \E p \in Clients, profile \in MatchProfiles : StartMatching(p, profile, TRUE)
    \/ \E p \in Clients : CreateTicket(p)
    \/ \E p \in Clients : JoinAddCall(p)
    \/ \E p \in Clients : JoinUpdate(p)
    \/ \E p \in Clients, t \in DOMAIN matchingRequests : MatchSnapshot(p, t)
    \/ \E p \in Clients, deleteOk \in BOOLEAN : CancelMatching(p, deleteOk)

(***************************************************************************)
(* WebRTCService, RTCPeerConnection variant.  An async method is a         *)
(* sequence of steps, one per write to the store it awaits; listener       *)
(* callbacks run on the snapshots the store has raised for them.           *)
(***************************************************************************)
Peers == {"a", "b"}
RtcCallTypes == {"video"}

CandidateId(n) == <<"iceCandidates", n>>
NoPC == [id |-> 0, remoteDescription |-> FALSE, connectionState |-> "closed"]
NoListener == 0

\* new RTCPeerConnection(peerConfig)
RTCPeerConnection(n) == [id |-> n, remoteDescription |-> FALSE, connectionState |-> "new"]

NoCallData == [offer |-> FALSE]

NewService ==
    [step |-> "idle", peerConnection |-> NoPC, localStream |-> FALSE,
     callId |-> NoId, isInitiator |-> FALSE,
     callUnsubscribe |-> NoListener, iceCandidatesUnsubscribe |-> NoListener,
     callData |-> NoCallData, ret |-> NoReturn, events |-> {}]

Listener(id, owner, kind, callId) ==
    [id |-> id, owner |-> owner, kind |-> kind, callId |-> callId]

\* a write to call document c raises a snapshot, carrying whether the document
\* now has an answer, for every active listener on it
CallNotified(c, hasAnswer) ==
    callPending \cup {<<l.id, hasAnswer>> : l \in {x \in wlisteners : x.kind = "call" /\ x.callId = c}}

\* candidatesQuery of listenForICECandidates, made for call c by user userId:
\* whether it selects a document with this data
candidatesQuery(data, c, userId) ==
    /\ data.callId = c
    /\ data.from # userId

\* the documents the query of listenForICECandidates selects
CandidatesFor(c, userId) ==
    {d \in DOMAIN iceCandidates : candidatesQuery(iceCandidates[d], c, userId)}

\* listenForCallUpdates and listenForICECandidates: two new listeners, held in the
\* two unsubscribe fields, each with its first snapshot raised
Listening(u, c) ==
    /\ wlisteners' = wlisteners \cup
          {Listener(wcount.listener + 1, u, "call", c),
           Listener(wcount.listener + 2, u, "ice", c)}
    /\ icePending' = icePending \cup
          {<<wcount.listener + 2, d, iceCandidates[d].from>> : d \in CandidatesFor(c, u)}

\* calling an unsubscribe function: the listener gets no further snapshot
Detach(ids, L) == {l \in L : l.id \notin ids}
DetachPending(ids, P) == {e \in P : e[1] \notin ids}

\* the write of updateCallStatus: the status the document gets
StatusWritten(old, status) == status

\* createCall up to the addDoc of the call document and the creation of the offer
CreateCall(u, callType) ==
    /\ wsvc[u].step = "idle"
    /\ callCount < MaxCalls
    /\ LET c == CallId(callCount + 1) IN
       /\ calls' = calls @@
            (c :> [callerId |-> u, receiverId |-> NoUser, status |-> "waiting",
                   callType |-> callType, createdAt |-> now,
                   offer |-> FALSE, answer |-> FALSE])
       /\ wsvc' = [wsvc EXCEPT ![u] =
                     [@ EXCEPT !.step = "create_offer",
                               !.localStream = TRUE,
                               !.callId = c,
                               !.isInitiator = TRUE,
                               !.peerConnection = RTCPeerConnection(wcount.pc + 1),
                               !.ret = NoReturn]]
    /\ callCount' = callCount + 1
    /\ wcount' = [wcount EXCEPT !.pc = @ + 1]
    /\ UNCHANGED <<payVars, matchVars, peerVars, matchingRequests, now, ticketCount,
                   iceCandidates, wlisteners, callPending, icePending,
                   forwardCount, lateForward>>

\* createCall: updateDoc of the offer, the two listeners, the return
CreateCallOffer(u) ==
    /\ wsvc[u].step = "create_offer"
    /\ LET c == wsvc[u].callId IN
       IF c \in DOMAIN calls
       THEN /\ calls' = [calls EXCEPT ![c] = [@ EXCEPT !.offer = TRUE]]
            /\ Listening(u, c)
            /\ callPending' = CallNotified(c, calls[c].answer)
                                 \cup {<<wcount.listener + 1, calls[c].answer>>}
            /\ wcount' = [wcount EXCEPT !.listener = @ + 2]
            /\ wsvc' = [wsvc EXCEPT ![u] =
                          [@ EXCEPT !.step = "idle",
                                    !.callUnsubscribe = wcount.listener + 1,
                                    !.iceCandidatesUnsubscribe = wcount.listener + 2,
                                    !.ret = [kind |-> "created", value |-> c]]]
       ELSE \* updateDoc rejects: 'Failed to create call: ...'
            /\ wsvc' = [wsvc EXCEPT ![u] =
                          [@ EXCEPT !.step = "idle",
                                    !.ret = [kind |-> "error", value |-> NoId]]]
            /\ UNCHANGED <<calls, wlisteners, icePending, callPending, wcount>>
    /\ UNCHANGED <<payVars, matchVars, peerVars, matchingRequests, now, ticketCount, callCount,
                   iceCandidates, forwardCount, lateForward>>

\* joinCall: the two checks on what getDocs returned: a document, with an offer
OfferFound_AnyRecord(c) == c \in DOMAIN calls

OfferFound(c) ==
    /\ c \in DOMAIN calls
    /\ calls[c].offer

\* joinCall up to the read of the call document
JoinCall(u, c, callType) ==
    /\ wsvc[u].step = "idle"
    /\ wcount.join < MaxJoins
    /\ wcount' = [wcount EXCEPT !.join = @ + 1]
    /\ wsvc' = [wsvc EXCEPT ![u] =
          [@ EXCEPT !.localStream = TRUE,
                    !.callId = c,
                    !.isInitiator = FALSE,
                    !.callData = IF c \in DOMAIN calls THEN [offer |-> calls[c].offer]
                                 ELSE NoCallData,
                    !.step = IF OfferFound(c) THEN "join_update" ELSE "idle",
                    \* 'Call not found' / 'No offer found in call'
                    !.ret = IF OfferFound(c)
                            THEN NoReturn ELSE [kind |-> "error", value |-> NoId]]]
    /\ UNCHANGED <<payVars, matchVars, peerVars, storeVars, iceCandidates, wlisteners,
                   callPending, icePending, forwardCount, lateForward>>

\* joinCall: updateDoc of receiverId and status, then the peer connection with the
\* offer as its remote description and the answer as its local one
JoinCallUpdate(u) ==
    /\ wsvc[u].step = "join_update"
    /\ LET c == wsvc[u].callId IN
       IF c \in DOMAIN calls
       THEN /\ calls' = [calls EXCEPT ![c] =
                           [@ EXCEPT !.receiverId = u,
                                     !.status = StatusWritten(@, "connecting")]]
            /\ callPending' = CallNotified(c, calls[c].answer)
            /\ wsvc' = [wsvc EXCEPT ![u] =
                          [@ EXCEPT !.step = "join_answer",
                                    !.peerConnection =
                                        [RTCPeerConnection(wcount.pc + 1)
                                           EXCEPT !.remoteDescription = TRUE]]]
            /\ wcount' = [wcount EXCEPT !.pc = @ + 1]
       ELSE \* updateDoc rejects: 'Failed to join call: ...'
            /\ wsvc' = [wsvc EXCEPT ![u] =
                          [@ EXCEPT !.step = "idle",
                                    !.ret = [kind |-> "error", value |-> NoId]]]
            /\ UNCHANGED <<calls, callPending, wcount>>
    /\ UNCHANGED <<payVars, matchVars, peerVars, matchingRequests, now, ticketCount, callCount,
                   iceCandidates, wlisteners, icePending, forwardCount, lateForward>>

\* joinCall: updateDoc of the answer and status, the two listeners, the return
JoinCallAnswer(u) ==
    /\ wsvc[u].step = "join_answer"
    /\ LET c == wsvc[u].callId IN
       IF c \in DOMAIN calls
       THEN /\ calls' = [calls EXCEPT ![c] =
                           [@ EXCEPT !.answer = TRUE,
                                     !.status = StatusWritten(@, "connecting")]]
            /\ Listening(u, c)
            /\ callPending' = CallNotified(c, TRUE) \cup {<<wcount.listener + 1, TRUE>>}
            /\ wcount' = [wcount EXCEPT !.listener = @ + 2]
            /\ wsvc' = [wsvc EXCEPT ![u] =
                          [@ EXCEPT !.step = "idle",
                                    !.callUnsubscribe = wcount.listener + 1,
                                    !.iceCandidatesUnsubscribe = wcount.listener + 2,
                                    !.ret = [kind |-> "joined", value |-> c]]]
       ELSE /\ wsvc' = [wsvc EXCEPT ![u] =
                          [@ EXCEPT !.step = "idle",
                                    !.ret = [kind |-> "error", value |-> NoId]]]
            /\ UNCHANGED <<calls, wlisteners, icePending, callPending, wcount>>
    /\ UNCHANGED <<payVars, matchVars, peerVars, matchingRequests, now, ticketCount, callCount,
                   iceCandidates, forwardCount, lateForward>>

\* peerConnection.onicecandidate -> sendICECandidate
SendICECandidate(u) ==
    /\ wsvc[u].peerConnection # NoPC
    /\ wsvc[u].callId # NoId
    /\ wcount.candidate < MaxCandidates
    /\ LET d == CandidateId(wcount.candidate + 1)
           data == [callId |-> wsvc[u].callId, from |-> u, timestamp |-> now]
       IN
       /\ iceCandidates' = iceCandidates @@ (d :> data)
       /\ icePending' = icePending \cup
            {<<l.id, d, data.from>> :
                l \in {x \in wlisteners : /\ x.kind = "ice"
                                          /\ candidatesQuery(data, x.callId, x.owner)}}
    /\ wcount' = [wcount EXCEPT !.candidate = @ + 1]
    /\ UNCHANGED <<payVars, matchVars, peerVars, storeVars, wsvc, wlisteners, callPending,
                   forwardCount, lateForward>>

\* the onSnapshot callback of listenForICECandidates, for one 'added' change
IceCandidateAdded(l, d) ==
    /\ l \in wlisteners
    /\ l.kind = "ice"
    /\ \E e \in icePending : e[1] = l.id /\ e[2] = d
    /\ icePending' = {e \in icePending : ~(e[1] = l.id /\ e[2] = d)}
    /\ LET pc == wsvc[l.owner].peerConnection IN
       IF pc # NoPC /\ pc.remoteDescription
       THEN \* addIceCandidate, then deleteDoc
            /\ forwardCount' =
                 IF <<pc.id, d>> \in DOMAIN forwardCount
                 THEN [forwardCount EXCEPT ![<<pc.id, d>>] = @ + 1]
                 ELSE forwardCount @@ (<<pc.id, d>> :> 1)
            /\ lateForward' = (lateForward \/ d \notin DOMAIN iceCandidates)
            /\ iceCandidates' = [x \in DOMAIN iceCandidates \ {d} |-> iceCandidates[x]]
       ELSE UNCHANGED <<forwardCount, lateForward, iceCandidates>>
    /\ UNCHANGED <<payVars, matchVars, peerVars, storeVars, wsvc, wlisteners, callPending, wcount>>

\* the condition under which the callback of listenForCallUpdates applies the answer
AppliesAnswer_AnySnapshot(u, hasAnswer) ==
    /\ wsvc[u].isInitiator
    /\ wsvc[u].peerConnection # NoPC

AppliesAnswer(u, hasAnswer) ==
    /\ wsvc[u].isInitiator
    /\ hasAnswer
    /\ wsvc[u].peerConnection # NoPC

\* the onSnapshot callback of listenForCallUpdates
CallUpdated(l, hasAnswer) ==
    /\ l \in wlisteners
    /\ l.kind = "call"
    /\ <<l.id, hasAnswer>> \in callPending
    /\ callPending' = callPending \ {<<l.id, hasAnswer>>}
    /\ LET u == l.owner IN
       IF AppliesAnswer(u, hasAnswer)
       THEN wsvc' = [wsvc EXCEPT ![u] =
                       [@ EXCEPT !.peerConnection = [@ EXCEPT !.remoteDescription = TRUE]]]
       ELSE UNCHANGED wsvc
    /\ UNCHANGED <<payVars, matchVars, peerVars, storeVars, iceCandidates, wlisteners, icePending,
                   wcount, forwardCount, lateForward>>

\* the states the browser may report next for a connection in state s
NextConnectionStates(s) ==
    CASE s = "new" -> {"connected", "failed"}
      [] s = "connected" -> {"disconnected", "failed"}
      [] s = "disconnected" -> {"connected", "failed"}
      [] OTHER -> {}

\* what the state-change handlers do to the call document: only 'connected' writes
CallAfterStateChange(u, state) ==
    LET c == wsvc[u].callId IN
    IF state = "connected" /\ c \in DOMAIN calls
    THEN [calls EXCEPT ![c] = [@ EXCEPT !.status = StatusWritten(@, "connected")]]
    ELSE calls

\* onconnectionstatechange and oniceconnectionstatechange
ConnectionStateChange(u, state) ==
    /\ wsvc[u].peerConnection # NoPC
    /\ wsvc[u].peerConnection.remoteDescription
    /\ state \in NextConnectionStates(wsvc[u].peerConnection.connectionState)
    /\ wsvc' = [wsvc EXCEPT ![u] =
          [@ EXCEPT !.peerConnection = [@ EXCEPT !.connectionState = state],
                    !.events = IF state = "connected"
                               THEN @ \cup {"onConnectionEstablished"}
                               ELSE @ \cup {"onCallEnded", "onError"}]]
    /\ calls' = CallAfterStateChange(u, state)
    /\ callPending' = IF calls' # calls
                      THEN CallNotified(wsvc[u].callId, calls[wsvc[u].callId].answer)
                      ELSE callPending
    /\ UNCHANGED <<payVars, matchVars, peerVars, matchingRequests, now, ticketCount, callCount,
                   iceCandidates, wlisteners, icePending, wcount, forwardCount, lateForward>>

\* the listeners endCall unsubscribes: those its two fields hold
HeldListeners(u) == {wsvc[u].callUnsubscribe, wsvc[u].iceCandidatesUnsubscribe}

\* endCall: close the connection, stop the tracks, updateCallStatus('ended')
\* (updateOk = FALSE, or a missing document: updateDoc rejects; updateCallStatus
\* logs the error)
EndCall(u, updateOk) ==
    /\ wsvc[u].step = "idle"
    /\ wsvc[u].ret.kind \notin {"ended", "ended_failed"}
    /\ LET c == wsvc[u].callId
           written == c \in DOMAIN calls /\ updateOk
       IN
       /\ calls' = IF written
                   THEN [calls EXCEPT ![c] = [@ EXCEPT !.status = StatusWritten(@, "ended")]]
                   ELSE calls
       /\ callPending' = IF written THEN CallNotified(c, calls[c].answer) ELSE callPending
       /\ wsvc' = [wsvc EXCEPT ![u] =
             [@ EXCEPT !.peerConnection = NoPC,
                       !.localStream = FALSE,
                       !.step = "end_cleanup",
                       !.ret = [kind |-> IF c = NoId \/ written
                                         THEN "ending" ELSE "ending_failed",
                                value |-> c]]]
    /\ UNCHANGED <<payVars, matchVars, peerVars, matchingRequests, now, ticketCount, callCount,
                   iceCandidates, wlisteners, icePending, wcount, forwardCount, lateForward>>

\* endCall: unsubscribe, then cleanupCallData up to the deleteDoc of the call document
\* (deleteOk = FALSE: deleteDoc rejects; cleanupCallData logs the error and returns
\* without touching the candidates, and endCall resets its fields and returns)
EndCallCleanup(u, deleteOk) ==
    /\ wsvc[u].step = "end_cleanup"
    /\ LET c == wsvc[u].callId IN
       /\ wlisteners' = Detach(HeldListeners(u), wlisteners)
       /\ callPending' = DetachPending(HeldListeners(u), callPending)
       /\ icePending' = DetachPending(HeldListeners(u), icePending)
       /\ calls' = IF deleteOk THEN [x \in DOMAIN calls \ {c} |-> calls[x]] ELSE calls
       /\ wsvc' = [wsvc EXCEPT ![u] =
             [@ EXCEPT !.callUnsubscribe = NoListener,
                       !.iceCandidatesUnsubscribe = NoListener,
                       !.step = IF c # NoId /\ deleteOk THEN "end_candidates" ELSE "idle",
                       !.callId = IF c # NoId /\ deleteOk THEN @ ELSE NoId,
                       !.isInitiator = IF c # NoId /\ deleteOk THEN @ ELSE FALSE,
                       !.ret = IF c = NoId THEN [kind |-> "ended", value |-> c]
                               ELSE IF deleteOk THEN @
                               ELSE [kind |-> "ended_failed", value |-> c]]]
    /\ UNCHANGED <<payVars, matchVars, peerVars, matchingRequests, now, ticketCount, callCount,
                   iceCandidates, wcount, forwardCount, lateForward>>

\* cleanupCallData: the query for the call's candidates and one deleteDoc for each,
\* all issued, then awaited together (those in failed reject; the error is logged);
\* then endCall resets callId and isInitiator and returns
EndCallCandidates(u, failed) ==
    /\ wsvc[u].step = "end_candidates"
    /\ LET c == wsvc[u].callId
           found == {d \in DOMAIN iceCandidates : iceCandidates[d].callId = c}
       IN
       /\ failed \subseteq found
       /\ iceCandidates' = [d \in DOMAIN iceCandidates \ (found \ failed) |-> iceCandidates[d]]
       /\ wsvc' = [wsvc EXCEPT ![u] =
             [@ EXCEPT !.step = "idle",
                       !.callId = NoId,
                       !.isInitiator = FALSE,
                       !.ret = [kind |-> IF wsvc[u].ret.kind = "ending" /\ failed = {}
                                         THEN "ended" ELSE "ended_failed",
                                value |-> c]]]
    /\ UNCHANGED <<payVars, matchVars, peerVars, storeVars, wlisteners, callPending, icePending,
                   wcount, forwardCount, lateForward>>

InitRaw ==
    /\ iceCandidates = <<>>
    /\ wsvc = [u \in Peers |-> NewService]
    /\ wlisteners = {}
    /\ callPending = {}
    /\ icePending = {}
    /\ wcount = [pc |-> 0, listener |-> 0, candidate |-> 0, join |-> 0]
    /\ forwardCount = <<>>
    /\ lateForward = FALSE

NextCall ==
    \/ \E u \in Peers, callType \in RtcCallTypes : CreateCall(u, callType)
    \/ \E u \in Peers : CreateCallOffer(u)
    \/ \E u \in Peers, n \in 1..callCount : JoinCall(u, CallId(n), "video")
    \/ \E u \in Peers : JoinCallUpdate(u)
    \/ \E u \in Peers : JoinCallAnswer(u)
    \/ \E u \in Peers : SendICECandidate(u)
    \/ \E l \in wlisteners, d \in {e[2] : e \in icePending} : IceCandidateAdded(l, d)
    \/ \E l \in wlisteners, hasAnswer \in BOOLEAN : CallUpdated(l, hasAnswer)
    \/ \E u \in Peers, state \in {"connected", "disconnected", "failed"} :
          ConnectionStateChange(u, state)
    \/ \E u \in Peers : EndCall(u, TRUE)
    \/ \E u \in Peers : EndCallCleanup(u, TRUE)
    \/ \E u \in Peers : EndCallCandidates(u, {})

(***************************************************************************)
(* WebRTCService, simple-peer variant.  Signalling goes through documents  *)
(* of the collection 'signals', addressed by role ('caller', 'receiver').  *)
(***************************************************************************)
Variants == {"raw", "simple-peer"}

MaxSignals == 2

SignalId(n) == <<"signals", n>>
NoPeer == 0

NewPeerService ==
    [step |-> "idle", peer |-> NoPeer, localStream |-> FALSE,
     callId |-> NoId, callDoc |-> NoId, isInitiator |-> FALSE,
     signalUnsubscribe |-> NoListener, ret |-> NoReturn]

\* sendSignal: the 'to' of a signal
SignalTo(isInitiator) == IF isInitiator THEN "receiver" ELSE "caller"

\* signalsQuery of listenForSignals, made for call c and role to: whether it selects
\* a document with this data
signalsQuery(data, c, to) ==
    /\ data.callId = c
    /\ data.to = to

\* listenForSignals: a new listener, held in signalUnsubscribe, with its first
\* snapshot raised
ListenForSignals(u, c, isInitiator) ==
    LET l == [id |-> pcount.listener + 1, owner |-> u, callId |-> c,
              to |-> IF isInitiator THEN "caller" ELSE "receiver"]
    IN
    /\ plisteners' = plisteners \cup {l}
    /\ sigPending' = sigPending \cup
          {<<l.id, d, signals[d].from>> :
              d \in {x \in DOMAIN signals : signalsQuery(signals[x], l.callId, l.to)}}

\* the condition under which the callback of listenForSignals hands the signal to
\* the peer and deletes its document
AcceptsSignal_AnyAuthor(from, userId, peer) == peer # NoPeer

AcceptsSignal(from, userId, peer) ==
    /\ from # userId
    /\ peer # NoPeer

\* initializeMedia: getUserMedia resolves
PeerInitializeMedia(u) ==
    /\ psvc[u].step = "idle"
    /\ ~psvc[u].localStream
    /\ psvc' = [psvc EXCEPT ![u] = [@ EXCEPT !.localStream = TRUE]]
    /\ UNCHANGED <<payVars, matchVars, storeVars, rtcVars, variant, signals, plisteners,
                   sigPending, pcount, signalCount>>

\* createCall up to the addDoc of the call document
PeerCreateCall(u, callType) ==
    /\ psvc[u].step = "idle"
    /\ callCount < MaxCalls
    /\ LET c == CallId(callCount + 1) IN
       /\ calls' = calls @@
            (c :> [callerId |-> u, receiverId |-> NoUser, status |-> "waiting",
                   callType |-> callType, createdAt |-> now,
                   offer |-> FALSE, answer |-> FALSE])
       /\ psvc' = [psvc EXCEPT ![u] = [@ EXCEPT !.step = "create_setup",
                                                !.callDoc = c,
                                                !.ret = NoReturn]]
    /\ callCount' = callCount + 1
    /\ UNCHANGED <<payVars, matchVars, rtcVars, matchingRequests, now, ticketCount,
                   variant, signals, plisteners, sigPending, pcount, signalCount>>

\* initializePeer and listenForSignals, as createCall and joinCall run them once
\* callId and isInitiator are set; without a local stream initializePeer throws
PeerSetup(u, c, isInitiator, kind) ==
    IF psvc[u].localStream
    THEN /\ psvc' = [psvc EXCEPT ![u] =
                       [@ EXCEPT !.step = "idle",
                                 !.callId = c,
                                 !.isInitiator = isInitiator,
                                 !.peer = pcount.peer + 1,
                                 !.signalUnsubscribe = pcount.listener + 1,
                                 !.ret = [kind |-> kind, value |-> c]]]
         /\ ListenForSignals(u, c, isInitiator)
         /\ pcount' = [pcount EXCEPT !.peer = @ + 1, !.listener = @ + 1]
    ELSE /\ psvc' = [psvc EXCEPT ![u] =
                       [@ EXCEPT !.step = "idle",
                                 !.callId = c,
                                 !.isInitiator = isInitiator,
                                 !.ret = [kind |-> "error", value |-> c]]]
         /\ UNCHANGED <<plisteners, sigPending, pcount>>

\* createCall after the addDoc: callId, isInitiator, initializePeer(true),
\* listenForSignals, the return
PeerCreateCallSetup(u) ==
    /\ psvc[u].step = "create_setup"
    /\ PeerSetup(u, psvc[u].callDoc, TRUE, "created")
    /\ UNCHANGED <<payVars, matchVars, storeVars, rtcVars, variant, signals, signalCount>>

\* joinCall up to the updateDoc of the call document (a missing document: the
\* updateDoc rejects and joinCall throws)
PeerJoinCall(u, c) ==
    /\ psvc[u].step = "idle"
    /\ pcount.join < MaxJoins
    /\ pcount' = [pcount EXCEPT !.join = @ + 1]
    /\ IF c \in DOMAIN calls
       THEN /\ calls' = [calls EXCEPT ![c] = [@ EXCEPT !.receiverId = u,
                                                       !.status = "connecting"]]
            /\ psvc' = [psvc EXCEPT ![u] = [@ EXCEPT !.step = "join_setup",
                                                     !.callId = c,
                                                     !.isInitiator = FALSE,
                                                     !.ret = NoReturn]]
       ELSE /\ psvc' = [psvc EXCEPT ![u] = [@ EXCEPT !.callId = c,
                                                     !.isInitiator = FALSE,
                                                     !.ret = [kind |-> "error", value |-> c]]]
            /\ UNCHANGED calls
    /\ UNCHANGED <<payVars, matchVars, rtcVars, matchingRequests, now, ticketCount, callCount,
                   variant, signals, plisteners, sigPending, signalCount>>

\* joinCall after the updateDoc: initializePeer(false), listenForSignals, the return
PeerJoinCallSetup(u) ==
    /\ psvc[u].step = "join_setup"
    /\ PeerSetup(u, psvc[u].callId, FALSE, "joined")
    /\ UNCHANGED <<payVars, matchVars, storeVars, rtcVars, variant, signals, signalCount>>

\* peer.on('signal') -> sendSignal
SendSignal(u) ==
    /\ psvc[u].peer # NoPeer
    /\ psvc[u].callId # NoId
    /\ pcount.signal < MaxSignals
    /\ LET d == SignalId(pcount.signal + 1)
           data == [callId |-> psvc[u].callId, from |-> u,
                    to |-> SignalTo(psvc[u].isInitiator), timestamp |-> now]
       IN
       /\ signals' = signals @@ (d :> data)
       /\ sigPending' = sigPending \cup
            {<<l.id, d, data.from>> :
                l \in {x \in plisteners : signalsQuery(data, x.callId, x.to)}}
    /\ pcount' = [pcount EXCEPT !.signal = @ + 1]
    /\ UNCHANGED <<payVars, matchVars, storeVars, rtcVars, variant, psvc, plisteners,
                   signalCount>>

\* the onSnapshot callback of listenForSignals, for one 'added' change
SignalAdded(l, d) ==
    /\ l \in plisteners
    /\ \E e \in sigPending :
         /\ e[1] = l.id
         /\ e[2] = d
         /\ sigPending' = sigPending \ {e}
         /\ LET peer == psvc[l.owner].peer IN
            IF AcceptsSignal(e[3], l.owner, peer)
            THEN \* peer.signal, then deleteDoc
                 /\ signalCount' =
                      IF <<peer, d>> \in DOMAIN signalCount
                      THEN [signalCount EXCEPT ![<<peer, d>>] = @ + 1]
                      ELSE signalCount @@ (<<peer, d>> :> 1)
                 /\ signals' = [x \in DOMAIN signals \ {d} |-> signals[x]]
            ELSE UNCHANGED <<signalCount, signals>>
    /\ UNCHANGED <<payVars, matchVars, storeVars, rtcVars, variant, psvc, plisteners, pcount>>

\* endCall: destroy the peer, stop the tracks, updateCallStatus('ended')
PeerEndCall(u) ==
    /\ psvc[u].step = "idle"
    /\ psvc[u].ret.kind # "ended"
    /\ LET c == psvc[u].callId IN
       /\ calls' = IF c \in DOMAIN calls
                   THEN [calls EXCEPT ![c] = [@ EXCEPT !.status = StatusWritten(@, "ended")]]
                   ELSE calls
       /\ psvc' = [psvc EXCEPT ![u] = [@ EXCEPT !.peer = NoPeer,
                                                !.localStream = FALSE,
                                                !.step = "end_cleanup",
                                                !.ret = [kind |-> "ending", value |-> c]]]
    /\ UNCHANGED <<payVars, matchVars, rtcVars, matchingRequests, now, ticketCount, callCount,
                   variant, signals, plisteners, sigPending, pcount, signalCount>>

\* endCall: unsubscribe, then cleanupCallData (the deleteDoc of the call document,
\* the query for the call's signals and one deleteDoc for each), callId reset
PeerEndCallCleanup(u) ==
    /\ psvc[u].step = "end_cleanup"
    /\ LET c == psvc[u].callId
           held == {psvc[u].signalUnsubscribe}
       IN
       /\ plisteners' = Detach(held, plisteners)
       /\ sigPending' = DetachPending(held, sigPending)
       /\ calls' = [x \in DOMAIN calls \ {c} |-> calls[x]]
       /\ signals' = [d \in {x \in DOMAIN signals : signals[x].callId # c} |-> signals[d]]
       /\ psvc' = [psvc EXCEPT ![u] = [@ EXCEPT !.signalUnsubscribe = NoListener,
                                                !.step = "idle",
                                                !.callId = NoId,
                                                !.ret = [kind |-> "ended", value |-> c]]]
    /\ UNCHANGED <<payVars, matchVars, rtcVars, matchingRequests, now, ticketCount, callCount,
                   variant, pcount, signalCount>>

InitPeer ==
    /\ signals = <<>>
    /\ psvc = [u \in Peers |-> NewPeerService]
    /\ plisteners = {}
    /\ sigPending = {}
    /\ pcount = [peer |-> 0, listener |-> 0, signal |-> 0, join |-> 0]
    /\ signalCount = <<>>

InitRtc ==
    /\ InitRaw
    /\ InitPeer
    /\ variant = "raw"

NextPeer ==
    \/ \E u \in Peers : PeerInitializeMedia(u)
    \/ \E u \in Peers, callType \in RtcCallTypes : PeerCreateCall(u, callType)
    \/ \E u \in Peers : PeerCreateCallSetup(u)
    \/ \E u \in Peers, n \in 1..callCount : PeerJoinCall(u, CallId(n))
    \/ \E u \in Peers : PeerJoinCallSetup(u)
    \/ \E u \in Peers : SendSignal(u)
    \/ \E l \in plisteners, d \in {e[2] : e \in sigPending} : SignalAdded(l, d)
    \/ \E u \in Peers : PeerEndCall(u)
    \/ \E u \in Peers : PeerEndCallCleanup(u)

\* a build has one of the two signalling variants
InitIngest ==
    /\ InitPay
    /\ InitStore
    /\ InitMatch
    /\ InitRaw
    /\ InitPeer
    /\ variant \in Variants

NextIngest ==
    \/ variant = "raw" /\ NextCall
    \/ variant = "simple-peer" /\ NextPeer

(***************************************************************************)
(* findExistingMatch over a populated collection: the tickets are up to    *)
(* three runs of equal tickets, oldest first.  Any such population can     *)
(* arise: a ticket is added whenever a query finds nothing or fails.       *)
(***************************************************************************)
TicketBody(userId, profile, status, matchedWith, callId) ==
    [userId |-> userId, userGender |-> profile.userGender,
     preferredGender |-> profile.preferredGender, isPremium |-> profile.isPremium,
     callType |-> profile.callType, status |-> status,
     matchedWith |-> matchedWith, callId |-> callId]

FindBodies ==
    {TicketBody("u2", Profile("male", "women", TRUE, "video"), "waiting", NoUser, NoId),
     TicketBody("u3", Profile("female", "women", TRUE, "video"), "waiting", NoUser, NoId),
     TicketBody("u2", Profile("female", "anyone", FALSE, "video"), "matched", "u3", CallId(1)),
     TicketBody("u3", Profile("male", "anyone", FALSE, "voice"), "waiting", NoUser, NoId)}

FindProfiles ==
    {Profile("female", "women", TRUE, "video"),
     Profile("female", "anyone", FALSE, "video"),
     Profile("male", "anyone", FALSE, "voice")}

\* n1 tickets b1, then n2 tickets b2, then n3 tickets b3, created at times 1, 2, ...
Population(b1, n1, b2, n2, b3, n3) ==
    [t \in {TicketId(i) : i \in 1..(n1 + n2 + n3)} |->
        LET b == IF t[2] <= n1 THEN b1 ELSE IF t[2] <= n1 + n2 THEN b2 ELSE b3
        IN [userId |-> b.userId, userGender |-> b.userGender,
            preferredGender |-> b.preferredGender, isPremium |-> b.isPremium,
            callType |-> b.callType, status |-> b.status, createdAt |-> t[2],
            matchedWith |-> b.matchedWith, callId |-> b.callId]]

InitFind ==
    /\ InitPay
    /\ InitMatch
    /\ InitRtc
    /\ calls = <<>>
    /\ callCount = 0
    /\ \E n1 \in 0..MaxFindTickets, n2 \in 0..MaxFindTickets, n3 \in 0..MaxFindTickets :
         /\ n1 + n2 + n3 <= MaxFindTickets
         /\ \E b1 \in FindBodies, b2 \in FindBodies, b3 \in FindBodies :
              matchingRequests = Population(b1, n1, b2, n2, b3, n3)
         /\ ticketCount = n1 + n2 + n3
         /\ now = n1 + n2 + n3 + 1

NextFind ==
    \E profile \in FindProfiles, queryOk \in BOOLEAN : StartMatching("u1", profile, queryOk)

(***************************************************************************)
(* isCompatibleMatch and wouldAcceptGender over every pair of a waiting    *)
(* request and a new user.                                                 *)
(***************************************************************************)
AllProfiles ==
    {Profile(g, pref, prem, "video") : g \in Genders, pref \in Preferences, prem \in BOOLEAN}

\* the call of isCompatibleMatch, with the two calls of wouldAcceptGender it makes
IsCompatibleMatch ==
    /\ ~mcheck.done
    /\ mcheck' = [mcheck EXCEPT
          !.done = TRUE,
          !.existingUserAccepts = wouldAcceptGender(mcheck.existingRequest.preferredGender,
                                                    mcheck.existingRequest.isPremium,
                                                    mcheck.newUser.userGender),
          !.newUserAccepts = wouldAcceptGender(mcheck.newUser.preferredGender,
                                               mcheck.newUser.isPremium,
                                               mcheck.existingRequest.userGender),
          !.result = isCompatibleMatch(mcheck.existingRequest, mcheck.newUser.userGender,
                                       mcheck.newUser.preferredGender,
                                       mcheck.newUser.isPremium)]
    /\ UNCHANGED <<payVars, storeVars, rtcVars, peerVars, msvc, mlisteners, mpending, mstarts, mclean>>

InitCompat ==
    /\ InitPay
    /\ InitStore
    /\ InitRtc
    /\ msvc = [p \in Clients |-> IdleService]
    /\ mlisteners = {}
    /\ mpending = {}
    /\ mstarts = 0
    /\ mclean = NoCleanup
    /\ \E existingRequest \in AllProfiles, newUser \in AllProfiles :
         mcheck = [NoCheck EXCEPT !.existingRequest = existingRequest, !.newUser = newUser]

NextCompat == IsCompatibleMatch

(***************************************************************************)
(* cleanupOldRequests over a collection of tickets created one a minute,   *)
(* waiting or matched, while a client searches and joins.                  *)
(***************************************************************************)
CleanStatuses == {"waiting", "matched"}
CleanProfiles == {Profile("male", "anyone", FALSE, "video")}

CleanPopulation(status) ==
    [t \in {TicketId(i) : i \in DOMAIN status} |->
        [userId |-> "u2", userGender |-> "male", preferredGender |-> "anyone",
         isPremium |-> FALSE, callType |-> "video", status |-> status[t[2]],
         createdAt |-> t[2],
         matchedWith |-> IF status[t[2]] = "matched" THEN "u3" ELSE NoUser,
         callId |-> IF status[t[2]] = "matched" THEN CallId(0) ELSE NoId]]

InitClean ==
    /\ InitPay
    /\ InitRtc
    /\ msvc = [p \in Clients |-> IdleService]
    /\ mlisteners = {}
    /\ mpending = {}
    /\ mstarts = 0
    /\ mcheck = NoCheck
    /\ \E tz \in TimeZones : mclean = [NoCleanup EXCEPT !.tz = tz]
    /\ calls = <<>>
    /\ callCount = 0
    /\ \E n \in 0..MaxCleanTickets :
         /\ \E status \in [1..n -> CleanStatuses] : matchingRequests = CleanPopulation(status)
         /\ ticketCount = n
         /\ now = n + 1

NextClean ==
    \/ Tick
    \/ \E queryOk \in BOOLEAN : CleanupOldRequests(queryOk)
    \/ \E failed \in {{}} \cup {{t} : t \in mclean.snapshot} : CleanupDelete(failed)
    \/ \E profile \in CleanProfiles : StartMatching("u1", profile, TRUE)
    \/ CreateTicket("u1")
    \/ JoinAddCall("u1")
    \/ JoinUpdate("u1")

(***************************************************************************)
(* The teardown operations with their store operations failing: one client *)
(* that searches alone and cancels, cleanupOldRequests over a collection   *)
(* of old waiting tickets, and one user that creates and ends a call.      *)
(***************************************************************************)
\* the tickets in the collection at the start, all older than the threshold
TeardownTickets == <<"waiting", "waiting">>

\* the arguments of the client: no ticket of the collection is compatible
TeardownProfile == Profile("male", "anyone", FALSE, "audio")

InitTeardown ==
    /\ InitPay
    /\ InitMatch
    /\ InitRtc
    /\ calls = <<>>
    /\ callCount = 0
    /\ matchingRequests = CleanPopulation(TeardownTickets)
    /\ ticketCount = Len(TeardownTickets)
    /\ now = Len(TeardownTickets) + CleanupAgeMinutes + 1

NextTeardown ==
    \/ \E queryOk \in BOOLEAN : CleanupOldRequests(queryOk)
    \/ \E failed \in SUBSET mclean.snapshot : CleanupDelete(failed)
    \/ StartMatching("u1", TeardownProfile, TRUE)
    \/ CreateTicket("u1")
    \/ \E deleteOk \in BOOLEAN : CancelMatching("u1", deleteOk)
    \/ CreateCall("a", "video")
    \/ CreateCallOffer("a")
    \/ SendICECandidate("a")
    \/ \E updateOk \in BOOLEAN : EndCall("a", updateOk)
    \/ \E deleteOk \in BOOLEAN : EndCallCleanup("a", deleteOk)
    \/ \E failed \in SUBSET DOMAIN iceCandidates : EndCallCandidates("a", failed)

Init == InitPay /\ InitStore /\ InitMatch /\ InitRtc

SpecTeardown == InitTeardown /\ [][NextTeardown]_vars

SpecIngest == InitIngest /\ [][NextIngest]_vars

SpecClean == InitClean /\ [][NextClean]_vars

SpecCompat == InitCompat /\ [][NextCompat]_vars

SpecFind == InitFind /\ [][NextFind]_vars

SpecCall == Init /\ [][NextCall]_vars

SpecPay == Init /\ [][NextPay]_vars

SpecMatch == Init /\ [][NextMatch]_vars

(***************************************************************************)
(* Matching from the state a first startMatching leaves: u1 has created    *)
(* ticket 1, is listening on it and has received its first snapshot.       *)
(* mstarts counts the startMatching calls that follow.                     *)
(***************************************************************************)
RestartProfile == Profile("male", "anyone", FALSE, "video")

RestartArgs ==
    [userGender |-> RestartProfile.userGender,
     preferredGender |-> RestartProfile.preferredGender,
     isPremium |-> RestartProfile.isPremium,
     callType |-> RestartProfile.callType,
     queryOk |-> TRUE]

InitRestart ==
    /\ InitPay
    /\ InitRtc
    /\ calls = <<>>
    /\ callCount = 0
    /\ matchingRequests = (TicketId(1) :> NewTicket("u1", RestartArgs, 1))
    /\ ticketCount = 1
    /\ now = 2
    /\ msvc = [p \in Clients |->
                 IF p = "u1"
                 THEN [IdleService EXCEPT !.args = RestartArgs,
                                          !.matchingUnsubscribe = TicketId(1),
                                          !.ret = [kind |-> "created", value |-> TicketId(1)]]
                 ELSE IdleService]
    /\ mlisteners = {<<"u1", TicketId(1)>>}
    /\ mpending = {}
    /\ mstarts = 0
    /\ mcheck = NoCheck
    /\ mclean = NoCleanup

SpecRestart == InitRestart /\ [][NextMatch]_vars

(***************************************************************************)
(* Claims about the payment edge function, checked under SpecPay.          *)
(***************************************************************************)
IsVerify(req) == req.action = "verify_payment"

ValidTriple(req) ==
    req.razorpay_signature = createHmac(RAZORPAY_SECRET_KEY,
        req.razorpay_order_id \o <<"|">> \o req.razorpay_payment_id)

\* the rows of the request's user that carry the request's gateway order id
RowsOf(req, rows) ==
    {i \in 1..Len(rows) : /\ rows[i].razorpay_order_id = req.razorpay_order_id
                          /\ rows[i].user_id = req.user_id}

\* C1: a verify_payment whose signature differs from HMAC-SHA256(secret,
\* order_id + "|" + payment_id) is answered with status 400 and 'Invalid payment
\* signature', changes no order row and dispatches no fulfillment action.
C1_InvalidSignatureFailsClosed ==
    [][(IsVerify(lastReq') /\ ~ValidTriple(lastReq'))
         => /\ resp' = ErrorResponse("Invalid payment signature")
            /\ resp'.status = 400 /\ ~resp'.success
            /\ orders' = orders
            /\ fulfilled' = fulfilled]_vars

\* C1 witness: a forged signature was presented for an existing unpaid order of
\* the requesting user, and was refused.
C1_Witness ==
    /\ IsVerify(lastReq) /\ ~ValidTriple(lastReq)
    /\ resp.error = "Invalid payment signature"
    /\ \E i \in RowsOf(lastReq, orders) : orders[i].status = "created"

\* C2: whenever a step makes an order paid, or changes the payment id or signature
\* recorded on it, the request served in that step is a verify_payment carrying
\* that order's gateway order id and user id, and a signature equal to the HMAC of
\* order id + "|" + the payment id now recorded; a request that is not such a valid
\* triple leaves every order's status as it was.
C2_PaidOnlyByValidTriple ==
    [][/\ Len(orders') >= Len(orders)
       /\ \A i \in 1..Len(orders') :
            LET after == orders'[i]
                changed == \/ i > Len(orders)
                           \/ orders[i].status # after.status
                           \/ orders[i].razorpay_payment_id # after.razorpay_payment_id
                           \/ orders[i].razorpay_signature # after.razorpay_signature
            IN /\ (i > Len(orders)) => after.status = "created"
               /\ (changed /\ after.status = "paid")
                    => /\ IsVerify(lastReq') /\ ValidTriple(lastReq')
                       /\ lastReq'.razorpay_order_id = after.razorpay_order_id
                       /\ lastReq'.user_id = after.user_id
                       /\ lastReq'.razorpay_payment_id = after.razorpay_payment_id
                       /\ lastReq'.razorpay_signature = after.razorpay_signature
               /\ (IsVerify(lastReq') /\ ~ValidTriple(lastReq') /\ i <= Len(orders))
                    => after.status = orders[i].status]_vars

\* C2 witness: a correctly signed verify_payment for an existing unpaid order, sent
\* under another user's id, was served and the order is still unpaid.
C2_Witness ==
    /\ IsVerify(lastReq) /\ ValidTriple(lastReq)
    /\ \E i \in 1..Len(orders) :
         /\ orders[i].razorpay_order_id = lastReq.razorpay_order_id
         /\ orders[i].user_id # lastReq.user_id
         /\ orders[i].status = "created"
    /\ ~resp.success

IsCreate(req) == req.action = "create_order"

\* C11: a create_order step appends one row, with status 'created' and the gateway
\* order id that the response returns, exactly when it answers success; a failure
\* answer (status 400) leaves the orders table as it was; and when the gateway call
\* is not ok no database statement is issued.
C11_OrderAddedIffSuccess ==
    [][(IsCreate(lastReq') /\ payVars' # payVars)
         => /\ resp'.success <=> (lastReq'.gatewayOk /\ lastReq'.storeOk)
            /\ resp'.success =>
                 /\ Len(orders') = Len(orders) + 1
                 /\ SubSeq(orders', 1, Len(orders)) = orders
                 /\ orders'[Len(orders')].status = "created"
                 /\ orders'[Len(orders')].razorpay_order_id = resp'.order_id
                 /\ orders'[Len(orders')].user_id = lastReq'.user_id
            /\ ~resp'.success => (orders' = orders /\ resp'.status = 400)
            /\ ~lastReq'.gatewayOk =>
                 (lastReq'.dbCalls = 0 /\ resp'.error = "Failed to create Razorpay order")]_vars

\* C11 witness: a create_order failed at the database insert after the gateway had
\* made the order, and no row was stored.
C11_Witness ==
    /\ IsCreate(lastReq) /\ lastReq.gatewayOk /\ ~lastReq.storeOk
    /\ resp.error = "Failed to store order in database"
    /\ orders = <<>>
    /\ gatewayCount = 1

\* the fulfillment action the specification names for a product type
SelectedAction(product_type) ==
    CASE product_type = "coins" -> {"add_coins"}
      [] product_type = "premium" -> {"activate_premium"}
      [] product_type = "unlimited_calls" -> {"activate_unlimited_calls"}
      [] OTHER -> {}

OrdersKept ==
    /\ Len(orders') >= Len(orders)
    /\ \A i \in 1..Len(orders) :
         /\ orders'[i].razorpay_order_id = orders[i].razorpay_order_id
         /\ orders'[i].user_id = orders[i].user_id
         /\ orders[i].status = "paid" => orders'[i].status = "paid"

\* C13: in every reachable state the status of every order is 'created' or 'paid';
\* no step takes a paid order back to 'created'; and no step deletes an order row.
C13_OrderStatusLifecycle ==
    /\ [](\A i \in 1..Len(orders) : orders[i].status \in {"created", "paid"})
    /\ [][OrdersKept]_vars

\* C13 witness: an order was paid and then served a second successful
\* verify_payment, and is still there and paid.
C13_Witness ==
    /\ Len(orders) = 1 /\ orders[1].status = "paid"
    /\ Len(fulfilled) = 2
    /\ IsVerify(lastReq) /\ resp.success

(***************************************************************************)
(* Claims about CallMatchingService.                                       *)
(***************************************************************************)
\* a client whose startMatching has got the result of findExistingMatch
HasSearched(p) == msvc[p].pc \in {"create", "join"}

\* waiting tickets of the caller's call type
Eligible(p) ==
    {t \in DOMAIN matchingRequests : /\ matchingRequests[t].status = "waiting"
                                     /\ matchingRequests[t].callType = msvc[p].args.callType}

\* among the QueryLimit oldest eligible tickets
AmongOldest(p, t) ==
    /\ t \in Eligible(p)
    /\ Cardinality({u \in Eligible(p) :
           matchingRequests[u].createdAt < matchingRequests[t].createdAt}) < QueryLimit

MutuallyCompatible(p, t) ==
    /\ wouldAcceptGender(matchingRequests[t].preferredGender,
                         matchingRequests[t].isPremium, msvc[p].args.userGender)
    /\ wouldAcceptGender(msvc[p].args.preferredGender, msvc[p].args.isPremium,
                         matchingRequests[t].userGender)

\* C4: the ticket findExistingMatch selects is waiting, of the caller's call type,
\* among the 10 oldest such tickets, mutually compatible with the caller, and the
\* oldest with these properties; when the query succeeds and such a ticket exists
\* one is selected; a compatible ticket outside the 10 oldest is never selected,
\* and with nothing selected the caller goes on as unmatched (creates a ticket).
C4_OldestCompatibleOfTen ==
    \A p \in Clients : HasSearched(p) =>
        LET r == msvc[p].existingMatch IN
        /\ r # NoMatch =>
             /\ r.id \in DOMAIN matchingRequests
             /\ AmongOldest(p, r.id)
             /\ MutuallyCompatible(p, r.id)
             /\ \A u \in DOMAIN matchingRequests :
                  (AmongOldest(p, u) /\ MutuallyCompatible(p, u))
                     => matchingRequests[r.id].createdAt <= matchingRequests[u].createdAt
        /\ (msvc[p].args.queryOk
              /\ \E u \in DOMAIN matchingRequests : AmongOldest(p, u) /\ MutuallyCompatible(p, u))
             => r # NoMatch
        /\ (r = NoMatch) <=> (msvc[p].pc = "create")

\* C4 witness: the query succeeded, a compatible waiting ticket of the caller's
\* call type exists but has 10 or more older eligible tickets, and nothing was
\* selected.
C4_Witness ==
    \E p \in Clients :
        /\ HasSearched(p) /\ msvc[p].args.queryOk
        /\ msvc[p].existingMatch = NoMatch
        /\ \E t \in Eligible(p) : MutuallyCompatible(p, t) /\ ~AmongOldest(p, t)

\* C5: when startMatching joined a ticket, the value it returned is the id of the
\* call document it created for the match.
C5_JoinReturnsCallId ==
    \A p \in Clients :
        msvc[p].ret.kind = "joined" => msvc[p].ret.value = msvc[p].callDoc

\* the clients that selected ticket t and have finished joinMatch (also those whose
\* cancelMatching then failed and left the ticket in place)
FinishedJoiners(t) ==
    {p \in Clients : /\ msvc[p].pc = "idle"
                     /\ msvc[p].existingMatch.id = t
                     /\ msvc[p].ret.kind \in {"joined", "error", "cancelled_failed"}}

\* what holds of two clients that have both run joinMatch on ticket t
BothJoined(t) ==
    \A p \in FinishedJoiners(t), q \in FinishedJoiners(t) :
        p # q =>
          /\ msvc[p].ret.kind # "error" /\ msvc[q].ret.kind # "error"
          /\ msvc[p].callDoc # msvc[q].callDoc
          /\ msvc[p].callDoc \in DOMAIN calls /\ msvc[q].callDoc \in DOMAIN calls
          /\ calls[msvc[p].callDoc].callerId = p
          /\ calls[msvc[q].callDoc].callerId = q
          /\ matchingRequests[t].status = "matched"
          /\ \E w \in FinishedJoiners(t) :
               /\ matchingRequests[t].matchedWith = w
               /\ matchingRequests[t].callId = msvc[w].callDoc

\* the step in which client p finishes joinMatch without an error writes p and
\* p's call document on the ticket, whatever the ticket held before
LastWriteWins ==
    \A p \in Clients :
        (msvc[p].pc = "join_update" /\ msvc'[p].ret.kind = "joined") =>
            LET t == msvc[p].existingMatch.id IN
            /\ t \in DOMAIN matchingRequests'
            /\ matchingRequests'[t].status = "matched"
            /\ matchingRequests'[t].matchedWith = p
            /\ matchingRequests'[t].callId = msvc[p].callDoc

\* C6: two clients that selected the same waiting ticket and have both run
\* joinMatch on it (the ticket not having been deleted) both finished without an
\* error, each created a call document of its own, and the ticket carries the
\* matchedWith and callId of one of them: those of whichever update was written
\* last, since every successful update overwrites both fields.
C6_DoubleJoinSucceeds ==
    /\ [](\A t \in DOMAIN matchingRequests : BothJoined(t))
    /\ [][LastWriteWins]_vars

\* C6 witness: two clients joined the same ticket, two call documents exist for
\* it, and the ticket names only one of them.
C6_Witness ==
    \E t \in DOMAIN matchingRequests :
        \E p \in FinishedJoiners(t), q \in FinishedJoiners(t) :
            /\ p # q
            /\ msvc[p].ret.kind = "joined" /\ msvc[q].ret.kind = "joined"
            /\ matchingRequests[t].matchedWith = q
            /\ matchingRequests[t].callId = msvc[q].callDoc
            /\ msvc[p].callDoc \in DOMAIN calls
            /\ msvc[p].callDoc # matchingRequests[t].callId

\* startMatching of p, having found no match, returns in this step
CreatesTicket(p) == msvc[p].pc = "create" /\ msvc'[p].pc = "idle"

\* C14: when findExistingMatch gave no ticket, startMatching adds exactly one
\* ticket, with status 'waiting' and the caller's user id, gender, preference,
\* premium flag and call type, has a listener on it, and returns its id; no call
\* document is created and no existing ticket is changed, neither by the search
\* nor by the creation.
C14_NoMatchCreatesTicket ==
    [][\A p \in Clients :
         /\ (msvc[p].pc = "idle" /\ msvc'[p].pc = "create")
               => (matchingRequests' = matchingRequests /\ calls' = calls)
         /\ CreatesTicket(p) =>
               \E t \in DOMAIN matchingRequests' \ DOMAIN matchingRequests :
                 /\ DOMAIN matchingRequests' = DOMAIN matchingRequests \cup {t}
                 /\ \A u \in DOMAIN matchingRequests : matchingRequests'[u] = matchingRequests[u]
                 /\ matchingRequests'[t].status = "waiting"
                 /\ matchingRequests'[t].userId = p
                 /\ matchingRequests'[t].userGender = msvc[p].args.userGender
                 /\ matchingRequests'[t].preferredGender = msvc[p].args.preferredGender
                 /\ matchingRequests'[t].isPremium = msvc[p].args.isPremium
                 /\ matchingRequests'[t].callType = msvc[p].args.callType
                 /\ <<p, t>> \in mlisteners'
                 /\ msvc'[p].matchingUnsubscribe = t
                 /\ msvc'[p].ret = [kind |-> "created", value |-> t]
                 /\ calls' = calls]_vars

\* C14 witness: a client found a waiting ticket that is not compatible with it and
\* created a second ticket, with its own preference, beside it.
C14_Witness ==
    \E p \in Clients, t, u \in DOMAIN matchingRequests :
       /\ t # u
       /\ msvc[p].ret = [kind |-> "created", value |-> t]
       /\ matchingRequests[t].userId = p
       /\ matchingRequests[t].preferredGender = "women"
       /\ matchingRequests[u].status = "waiting"
       /\ matchingRequests[u].createdAt < matchingRequests[t].createdAt
       /\ calls = <<>>

\* acceptance as the specification words it
Accepts(preference, isPremium, targetGender) ==
    \/ ~isPremium
    \/ preference = "anyone"
    \/ preference = "men" /\ targetGender = "male"
    \/ preference = "women" /\ targetGender = "female"

\* C15: wouldAcceptGender is true for every target gender when isPremium is false;
\* when isPremium is true it is true iff the preference is 'anyone', or 'men' with
\* target 'male', or 'women' with target 'female'.
C15_WouldAcceptGender ==
    mcheck.done =>
       /\ mcheck.newUserAccepts <=> Accepts(mcheck.newUser.preferredGender,
                                            mcheck.newUser.isPremium,
                                            mcheck.existingRequest.userGender)
       /\ mcheck.existingUserAccepts <=> Accepts(mcheck.existingRequest.preferredGender,
                                                 mcheck.existingRequest.isPremium,
                                                 mcheck.newUser.userGender)

\* C15 witness: a premium user who prefers men was asked about a user of gender
\* 'other' and does not accept.
C15_Witness ==
    /\ mcheck.done
    /\ mcheck.newUser.isPremium /\ mcheck.newUser.preferredGender = "men"
    /\ mcheck.existingRequest.userGender = "other"
    /\ ~mcheck.newUserAccepts

\* C16: isCompatibleMatch accepts iff the owner of the waiting request accepts the
\* new user's gender and the new user accepts the owner's gender, and its result is
\* the same with the two users in each other's place.
C16_CompatibilitySymmetric ==
    mcheck.done =>
       /\ mcheck.result <=>
             /\ Accepts(mcheck.existingRequest.preferredGender,
                        mcheck.existingRequest.isPremium, mcheck.newUser.userGender)
             /\ Accepts(mcheck.newUser.preferredGender, mcheck.newUser.isPremium,
                        mcheck.existingRequest.userGender)
       /\ mcheck.result <=>
             isCompatibleMatch(mcheck.newUser, mcheck.existingRequest.userGender,
                               mcheck.existingRequest.preferredGender,
                               mcheck.existingRequest.isPremium)

\* C16 witness: a pairing was refused in which the new user accepts the owner of
\* the waiting request but the owner does not accept the new user.
C16_Witness ==
    /\ mcheck.done
    /\ mcheck.newUserAccepts /\ ~mcheck.existingUserAccepts
    /\ ~mcheck.result

\* C17: the tickets cleanupOldRequests selects when it is called are exactly those
\* with status 'waiting' created strictly more than 5 minutes earlier, and when its
\* deletes do not fail it deletes exactly the selected tickets: every other ticket,
\* so every ticket that was not waiting or not old enough at the call, is left as
\* it is.
C17_CleanupDeletesOldWaiting ==
    [][/\ (mclean.pc = "idle" /\ mclean'.pc = "delete")
            => mclean'.snapshot =
                 {t \in DOMAIN matchingRequests :
                     /\ matchingRequests[t].status = "waiting"
                     /\ now - matchingRequests[t].createdAt > 5}
       /\ (mclean.pc = "delete" /\ mclean'.pc = "idle" /\ mclean'.failed = {})
            => /\ DOMAIN matchingRequests' = DOMAIN matchingRequests \ mclean.snapshot
               /\ \A t \in DOMAIN matchingRequests' :
                    matchingRequests'[t] = matchingRequests[t]]_vars

\* cancelMatching of p returns in this step
CancelReturns(p) ==
    /\ msvc[p].ret.kind \in {"created", "joined"}
    /\ msvc'[p].ret.kind \in {"cancelled", "cancelled_failed"}

\* C18: when cancelMatching(ticket id) returns, the ticket is not in
\* matchingRequests, matchingUnsubscribe is null and the listener it held is no
\* longer subscribed.
C18_CancelDeletesAndUnsubscribes ==
    [][\A p \in Clients : CancelReturns(p) =>
          /\ msvc'[p].ret.value \notin DOMAIN matchingRequests'
          /\ msvc'[p].matchingUnsubscribe = NoId
          /\ <<p, msvc[p].matchingUnsubscribe>> \notin mlisteners']_vars

(***************************************************************************)
(* Claims about the call service (SpecCall).                               *)
(***************************************************************************)
\* C7: every candidate is forwarded (addIceCandidate) into one peer connection at
\* most once, and no candidate is forwarded after its document has been deleted
\* from the store.
C7_ForwardedAtMostOnce ==
    /\ \A k \in DOMAIN forwardCount : forwardCount[k] <= 1
    /\ ~lateForward

StatusRank(status) ==
    CASE status = "waiting" -> 0
      [] status = "connecting" -> 1
      [] status = "connected" -> 2
      [] status = "ended" -> 3

\* C8: no step moves the status of a call document that exists before and after
\* it back to an earlier value of waiting -> connecting -> connected -> ended.
C8_StatusOnlyAdvances ==
    [][\A c \in DOMAIN calls \cap DOMAIN calls' :
          StatusRank(calls'[c].status) >= StatusRank(calls[c].status)]_vars

\* endCall of u returns in this step, none of its store operations having failed
EndCallReturns(u) ==
    /\ wsvc[u].step \in {"end_cleanup", "end_candidates"}
    /\ wsvc'[u].step = "idle"
    /\ wsvc'[u].ret.kind = "ended"

\* C9: when endCall returns with no store operation having failed, the instance
\* holds no peer connection, no local stream, no call id and no active listener,
\* and the store holds neither the call document nor a candidate of that call
\* (endCall writes 'ended' in its first step, before the step that deletes).
C9_EndCallLeavesNothing ==
    [][\A u \in Peers : EndCallReturns(u) =>
          /\ wsvc'[u].peerConnection = NoPC
          /\ ~wsvc'[u].localStream
          /\ wsvc'[u].callId = NoId
          /\ \A l \in wlisteners' : l.owner # u
          /\ wsvc[u].callId \notin DOMAIN calls'
          /\ \A d \in DOMAIN iceCandidates' : iceCandidates'[d].callId # wsvc[u].callId]_vars

\* the peer connection of u reports 'disconnected' or 'failed' in this step
ConnectionLost(u) ==
    /\ wsvc'[u].peerConnection.connectionState \in {"disconnected", "failed"}
    /\ wsvc'[u].peerConnection.connectionState # wsvc[u].peerConnection.connectionState

\* C10: when the peer connection of a participant reports 'disconnected' or
\* 'failed', the handlers leave that participant's call document, if it exists,
\* with status 'ended'.
C10_ConnectionLossEndsCall ==
    [][\A u \in Peers :
          (ConnectionLost(u) /\ wsvc[u].callId \in DOMAIN calls')
             => calls'[wsvc[u].callId].status = "ended"]_vars

(***************************************************************************)
(* C19: cancelMatching, cleanupOldRequests and endCall never hand an error *)
(* to their caller: a store operation that fails inside them is logged,    *)
(* the operation returns normally and the failed write is not repeated, so *)
(* the document it was aimed at is as it was when the operation returns.   *)
(***************************************************************************)
CancelStep(p) ==
    /\ msvc[p].pc = "idle"
    /\ msvc'[p].pc = "idle"
    /\ msvc'[p].ret # msvc[p].ret

CancelSwallows(p) ==
    /\ msvc'[p].ret.kind \in {"cancelled", "cancelled_failed"}
    /\ msvc'[p].ret.kind = "cancelled_failed" => matchingRequests' = matchingRequests

CleanupSwallows ==
    /\ mclean'.ret \in {"none", "returned"}
    /\ mclean'.ret = "returned" =>
         /\ mclean'.pc = "idle"
         /\ ~mclean'.queryOk => matchingRequests' = matchingRequests
         /\ \A t \in mclean'.failed \cap DOMAIN matchingRequests :
               /\ t \in DOMAIN matchingRequests'
               /\ matchingRequests'[t] = matchingRequests[t]

EndCallSwallows(u) ==
    /\ wsvc[u].step = "idle" /\ wsvc'[u].step = "end_cleanup" =>
         /\ wsvc'[u].ret.kind \in {"ending", "ending_failed"}
         /\ wsvc'[u].ret.kind = "ending_failed" => calls' = calls
    /\ wsvc[u].step = "end_cleanup" /\ wsvc'[u].step = "idle" =>
         /\ wsvc'[u].ret.kind \in {"ended", "ended_failed"}
         /\ wsvc'[u].ret.kind = "ended_failed" =>
               calls' = calls /\ iceCandidates' = iceCandidates
    /\ wsvc[u].step = "end_candidates" /\ wsvc'[u].step = "idle" =>
         /\ wsvc'[u].ret.kind \in {"ended", "ended_failed"}
         /\ wsvc[u].ret.kind = "ending" /\ wsvc'[u].ret.kind = "ended_failed" =>
               \E d \in DOMAIN iceCandidates \cap DOMAIN iceCandidates' :
                   /\ iceCandidates[d].callId = wsvc'[u].ret.value
                   /\ iceCandidates'[d] = iceCandidates[d]

C19_TeardownSwallowsErrors ==
    [][/\ \A p \in Clients : CancelStep(p) => CancelSwallows(p)
       /\ mclean' # mclean => CleanupSwallows
       /\ \A u \in Peers : EndCallSwallows(u)]_vars

\* each of the three operations has returned after a store operation of its own failed
C19_Witness ==
    /\ msvc["u1"].ret.kind = "cancelled_failed"
    /\ msvc["u1"].ret.value \in DOMAIN matchingRequests
    /\ mclean.ret = "returned"
    /\ mclean.failed # {}
    /\ wsvc["a"].ret.kind = "ended_failed"
    /\ wsvc["a"].ret.value \in DOMAIN calls

(***************************************************************************)
(* C20: in both signalling variants, a listener hands a message to its     *)
(* owner's peer object, and deletes it, only when the 'from' of the        *)
(* message differs from the owner's user id.                               *)
(***************************************************************************)
\* the change a callback has consumed in this step came from another user
IngestedFromOther(pending, pendingAfter, listeners) ==
    \A e \in pending \ pendingAfter :
        \A l \in listeners : l.id = e[1] => e[3] # l.owner

\* the 'from' a change carries is that of its document
CarriesAuthor(pending, collection) ==
    \A e \in pending : e[2] \in DOMAIN collection => collection[e[2]].from = e[3]

C20_NeverIngestsOwnMessage ==
    [][/\ CarriesAuthor(icePending, iceCandidates)
       /\ CarriesAuthor(sigPending, signals)
       /\ forwardCount' # forwardCount =>
            IngestedFromOther(icePending, icePending', wlisteners)
       /\ signalCount' # signalCount =>
            IngestedFromOther(sigPending, sigPending', plisteners)]_vars

\* a user that created a call and then joined it has a signal of its own raised for
\* the listener it left behind, and another user's signal has been handed to a peer
C20_Witness ==
    /\ signalCount # <<>>
    /\ \E e \in sigPending : \E l \in plisteners : l.id = e[1] /\ l.owner = e[3]

(***************************************************************************)
(* C21: joinCall (RTCPeerConnection variant) on a call id without a        *)
(* document, or on a document without an offer, ends with an error and     *)
(* writes nothing to the calls collection.                                 *)
(***************************************************************************)
\* user u is the one whose joinCall has read the call document in this step
JoinCallReads(u) ==
    /\ wcount'.join # wcount.join
    /\ wsvc[u].step = "idle"
    /\ \A v \in Peers \ {u} : wsvc'[v] = wsvc[v]
    /\ wsvc'[u] # wsvc[u] \/ wsvc[u].ret.kind = "error"

C21_JoinWithoutOfferRejected ==
    [][\A u \in Peers :
          (/\ JoinCallReads(u)
           /\ wsvc'[u].callId \in DOMAIN calls => ~calls[wsvc'[u].callId].offer) =>
              /\ wsvc'[u].ret.kind = "error"
              /\ wsvc'[u].step = "idle"
              /\ calls' = calls]_vars

\* a joinCall has been rejected for a document that exists and has no offer yet
C21_Witness ==
    \E u \in Peers :
        /\ wsvc[u].ret.kind = "error"
        /\ wsvc[u].step = "idle"
        /\ ~wsvc[u].isInitiator
        /\ wsvc[u].callId \in DOMAIN calls
        /\ ~calls[wsvc[u].callId].offer
        /\ calls[wsvc[u].callId].receiverId = NoUser

(***************************************************************************)
(* C22: every ticket with status 'matched' has matchedWith and callId set, *)
(* and its callId is the id of a call document whose callerId is the user  *)
(* in matchedWith: the three fields are written by one updateDoc.          *)
(***************************************************************************)
C22_MatchedTicketComplete ==
    \A t \in DOMAIN matchingRequests :
        matchingRequests[t].status = "matched" =>
            /\ matchingRequests[t].matchedWith # NoUser
            /\ matchingRequests[t].callId # NoId
            /\ matchingRequests[t].callId \in DOMAIN calls
            /\ calls[matchingRequests[t].callId].callerId = matchingRequests[t].matchedWith

\* a ticket is matched while its joiner's startMatching has returned
C22_Witness ==
    \E t \in DOMAIN matchingRequests :
        /\ matchingRequests[t].status = "matched"
        /\ matchingRequests[t].matchedWith \in Clients
        /\ msvc[matchingRequests[t].matchedWith].ret.kind = "joined"
        /\ msvc[matchingRequests[t].matchedWith].callDoc = matchingRequests[t].callId

(***************************************************************************)
(* C23: onMatchFound is invoked only for a ticket that exists, is          *)
(* 'matched' and has callId and matchedWith, with these two values, and    *)
(* when the callback returns the listener of that ticket is unsubscribed.  *)
(* (The claim also says the invocation eventually happens once another     *)
(* user has joined the ticket.)                                            *)
(***************************************************************************)
\* the listener callback of client p invokes onMatchFound in this step
MatchFound(p) == Len(msvc'[p].found) = Len(msvc[p].found) + 1

LastFound(p) == msvc'[p].found[Len(msvc'[p].found)]

C23_MatchFoundThenUnsubscribed ==
    [][\A p \in Clients : MatchFound(p) =>
          LET t == LastFound(p).ticket IN
          /\ t \in DOMAIN matchingRequests
          /\ matchingRequests[t].status = "matched"
          /\ LastFound(p).callId = matchingRequests[t].callId
          /\ LastFound(p).callId # NoId
          /\ LastFound(p).partnerId = matchingRequests[t].matchedWith
          /\ LastFound(p).partnerId # NoUser
          /\ <<p, t>> \notin mlisteners']_vars

(***************************************************************************)
(* C24: every candidate handed to the callback of a user's candidate       *)
(* listener (RTCPeerConnection variant) is forwarded into the user's peer  *)
(* connection and its document is deleted, also when the remote            *)
(* description of the connection has not been set yet.                     *)
(***************************************************************************)
\* the callback of a candidate listener has handled change e in this step
CandidateHandled(e) ==
    /\ e \in icePending
    /\ e \notin icePending'
    /\ wlisteners' = wlisteners

C24_DeliveredCandidateForwarded ==
    [][\A e \in icePending : CandidateHandled(e) =>
          /\ forwardCount' # forwardCount
          /\ e[2] \notin DOMAIN iceCandidates']_vars

(***************************************************************************)
(* C25: negotiation is ordered (RTCPeerConnection variant).  A call        *)
(* document that has an answer, or a receiverId written by joinCall, has   *)
(* an offer; a responder sets a remote description only from a document   *)
(* it read with an offer; an initiator's remote description is set only by *)
(* a snapshot that carries an answer.                                      *)
(***************************************************************************)
AnswerImpliesOffer ==
    \A c \in DOMAIN calls :
        (calls[c].answer \/ calls[c].receiverId # NoUser) => calls[c].offer

\* the remote description of u's peer connection is set in this step
RemoteDescriptionSet(u) ==
    /\ wsvc'[u].peerConnection.remoteDescription
    /\ \/ ~wsvc[u].peerConnection.remoteDescription
       \/ wsvc'[u].peerConnection.id # wsvc[u].peerConnection.id

NegotiationOrdered ==
    \A u \in Peers : RemoteDescriptionSet(u) =>
        IF wsvc'[u].isInitiator
        THEN \E e \in callPending \ callPending' : e[2]
        ELSE /\ wsvc[u].callData.offer
             /\ wsvc[u].callId \in DOMAIN calls
             /\ calls[wsvc[u].callId].offer

DispatchesFor(i) == {k \in DOMAIN fulfilled : fulfilled[k].row = i}

C26_FulfilledAtMostOnce ==
    \A i \in DOMAIN orders : Cardinality(DispatchesFor(i)) <= 1

(***************************************************************************)
(* C27: no ticket is ever matched with its own owner: the matchedWith of a *)
(* matched ticket differs from its userId, also when the owner calls       *)
(* startMatching again while the ticket is waiting.                        *)
(***************************************************************************)
C27_NeverMatchedWithOwner ==
    \A t \in DOMAIN matchingRequests :
        matchingRequests[t].status = "matched" =>
            matchingRequests[t].matchedWith # matchingRequests[t].userId

(***************************************************************************)
(* C28: joinMatch leaves no orphan call document: at the step that ends    *)
(* joinMatch, with success or with an error, the call document it created  *)
(* is the callId of an existing 'matched' ticket, whatever cancelMatching  *)
(* or cleanupOldRequests did to the selected ticket in between.            *)
(***************************************************************************)
JoinMatchEnds(p) == msvc[p].pc = "join_update" /\ msvc'[p].pc = "idle"

ReferencedAfter(c) ==
    \E t \in DOMAIN matchingRequests' :
        /\ matchingRequests'[t].status = "matched"
        /\ matchingRequests'[t].callId = c

C28_NoOrphanCallRecord ==
    [][\A p \in Clients :
         JoinMatchEnds(p) => ReferencedAfter(msvc[p].callDoc)]_vars

(***************************************************************************)
(* C29: the call document joinMatch creates for ticket T names the joiner  *)
(* as callerId and T's owner, a different user, as receiverId, and has T's *)
(* call type.                                                              *)
(***************************************************************************)
CallDocAdded(p) == msvc[p].pc = "join" /\ msvc'[p].pc = "join_update"

CallDocNamesBothSides(p) ==
    LET c == calls'[msvc'[p].callDoc]
        T == msvc[p].existingMatch
    IN /\ c.callerId = p
       /\ c.receiverId = T.userId
       /\ c.receiverId # c.callerId
       /\ c.callType = T.callType

C29_CallRecordNamesBothSides ==
    [][\A p \in Clients : CallDocAdded(p) => CallDocNamesBothSides(p)]_vars

(***************************************************************************)
(* C30: on one CallMatchingService instance onMatchFound is invoked at     *)
(* most once per ticket, also when startMatching is called again while the *)
(* listener of an earlier ticket is active.                                *)
(***************************************************************************)
FoundTickets(p) == {k \in DOMAIN msvc[p].found : TRUE}

C30_MatchFoundOncePerTicket ==
    \A p \in Clients : \A j, k \in FoundTickets(p) :
        msvc[p].found[j].ticket = msvc[p].found[k].ticket => j = k

====
